---- MODULE Spec2Model ----
(***************************************************************************)
(* Model of the stepper-motor controller (src/src/microstepper.py,         *)
(* src/src/stepper_motor.py), its fixed-point angle (src/src/              *)
(* rotor_angle.py) and its table of phase currents (src/src/               *)
(* electric_cycle.py).                                                     *)
(*                                                                         *)
(* Conventions                                                             *)
(*  - A Python `assert` is executed only when the interpreter runs with    *)
(*    __debug__ true (the default); `python -O` strips it.  The variable   *)
(*    `debug` is that run-time configuration, chosen once in Init.         *)
(*  - A phase current is a real number cos(x) or sin(x).  It is held as    *)
(*    the code c in 0..UNITS/2 of the real value cos(2*pi*c/UNITS), so     *)
(*    that two currents are equal exactly when their codes are equal:      *)
(*    +1 is code 0, 0 is code UNITS/4 and -1 is code UNITS/2.              *)
(*  - An exception is the `err` field of the value an operator returns.    *)
(***************************************************************************)
EXTENDS Integers, Sequences, FiniteSets, TLC

VARIABLES debug, pc, rotor_angle, IA, IB, pins, frame, last, ncalls, clean, obj, table,
          stepper, trace

vars == <<debug, pc, rotor_angle, IA, IB, pins, frame, last, ncalls, clean, obj, table,
          stepper, trace>>

(***************************************************************************)
(* Python arithmetic used by the sources                                   *)
(***************************************************************************)

\* a ^ b of Python: bitwise exclusive or of two non-negative integers
RECURSIVE BitXor(_, _)
BitXor(a, b) ==
    IF a = 0 THEN b
    ELSE IF b = 0 THEN a
    ELSE ((a + b) % 2) + 2 * BitXor(a \div 2, b \div 2)

\* a & b of Python for a >= 0 (b may be -1, all bits set)
RECURSIVE BitAnd(_, _)
BitAnd(a, b) ==
    IF a = 0 \/ b = 0 THEN 0
    ELSE ((a % 2) * (b % 2)) + 2 * BitAnd(a \div 2, b \div 2)

\* round(num/den) of Python for den > 0: nearest integer, ties to even
PyRound(num, den) ==
    LET q == num \div den
        r == num % den
    IN  IF 2 * r < den THEN q
        ELSE IF 2 * r > den THEN q + 1
        ELSE IF q % 2 = 0 THEN q ELSE q + 1

Abs(n) == IF n < 0 THEN -n ELSE n

(***************************************************************************)
(* rotor_angle.py                                                          *)
(***************************************************************************)

FULL_STEPS_PER_REV == 200
SECTOR_COUNT       == FULL_STEPS_PER_REV
SECTOR_TICKS       == BitXor(2, 16)
TOTAL_TICKS        == SECTOR_COUNT * SECTOR_TICKS

is_power_of_2(n) ==
    IF n < 0 THEN FALSE ELSE BitAnd(n, n - 1) = 0

\* the value of a reference that holds no RotorAngle
NoAngle == [sector |-> 0, ticks |-> 0]

\* RotorAngle.__init__: the three assertions, then the two assignments
RotorAngle_init(dbg, sector, ticks) ==
    IF dbg /\ ~is_power_of_2(SECTOR_COUNT)
        THEN [err |-> "AssertionError", angle |-> NoAngle]
    ELSE IF dbg /\ ~(1 <= sector /\ sector <= SECTOR_COUNT)
        THEN [err |-> "AssertionError", angle |-> NoAngle]
    ELSE IF dbg /\ ~(0 <= ticks /\ ticks < SECTOR_TICKS)
        THEN [err |-> "AssertionError", angle |-> NoAngle]
    ELSE [err |-> "", angle |-> [sector |-> sector, ticks |-> ticks]]

\* RotorAngle.from_degrees for the angle h/HALF_TICKS_PER_DEGREE degrees
\* (h counts half ticks, so that the rounding has ties to break)
HALF_TICKS_PER_DEGREE == (2 * TOTAL_TICKS) \div 360

\* angle_normalized * TOTAL_TICKS / 360 is a double.  For an odd h of the
\* first turn it is either exactly half way between two ticks, and round
\* returns the even one, or it is not, and round returns the nearer one:
\* FLOAT_ROUND_ODD is the set of the odd h in 0..2*TOTAL_TICKS-1 for which
\* that is the odd tick.  (For an even h, of any turn, it is the tick h/2
\* of the turn, exactly.)
FLOAT_ROUND_ODD == {
    87, 161, 179, 181, 323, 337, 343, 357, 363, 649, 651, 669, 671,
    689, 691, 709, 711, 1287, 1293, 1307, 1313, 1327, 1333, 1347,
    1353, 1367, 1373, 1387, 1393, 1407, 1413, 1427, 1433, 1447, 1453,
    2561, 2579, 2581, 2599, 2601, 2619, 2621, 2639, 2641, 2659, 2661,
    2679, 2681, 2699, 2701, 2719, 2721, 2739, 2741, 2759, 2761, 2779,
    2781, 2799, 2801, 2819, 2821, 2839, 2841, 2859, 2861, 2879, 2881,
    2899, 2901, 5123, 5137, 5143, 5157, 5163, 5177, 5183, 5197, 5203,
    5217, 5223, 5237, 5243, 5257, 5263, 5277, 5283, 5297, 5303, 5317,
    5323, 5337, 5343, 5357, 5363, 5377, 5383, 5397, 5403, 5417, 5423,
    5437, 5443, 5457, 5463, 5477, 5483, 5497, 5503, 5517, 5523, 5537,
    5543, 5557, 5563, 5577, 5583, 5597, 5603, 5617, 5623, 5637, 5643,
    5657, 5663, 5677, 5683, 5697, 5703, 5717, 5723, 5737, 5743, 5757,
    5763, 5777, 5783, 5797, 5803, 5817, 5823 }

\* from_degrees without the wrap of TOTAL_TICKS to 0 (C24 tells it from the
\* code)
from_degrees_no_wrap(dbg, h) ==
    LET angle_normalized == h % (360 * HALF_TICKS_PER_DEGREE)
        rounded          == IF h \in FLOAT_ROUND_ODD
                                THEN angle_normalized - PyRound(angle_normalized, 2)
                                ELSE PyRound(angle_normalized, 2)
        angle_in_ticks   == rounded
        sector           == (angle_in_ticks \div SECTOR_TICKS) + 1
        position_in_sector == angle_in_ticks % SECTOR_TICKS
    IN  RotorAngle_init(dbg, sector, position_in_sector)

from_degrees(dbg, h) ==
    LET angle_normalized == h % (360 * HALF_TICKS_PER_DEGREE)
        rounded          == IF h \in FLOAT_ROUND_ODD
                                THEN angle_normalized - PyRound(angle_normalized, 2)
                                ELSE PyRound(angle_normalized, 2)
        angle_in_ticks   == IF rounded = TOTAL_TICKS THEN 0 ELSE rounded
        sector           == (angle_in_ticks \div SECTOR_TICKS) + 1
        position_in_sector == angle_in_ticks % SECTOR_TICKS
    IN  RotorAngle_init(dbg, sector, position_in_sector)

\* to_degrees counting the sectors up to and with the current one (C25
\* tells it from the code)
to_degrees_sector_ahead(a) == a.sector * SECTOR_TICKS + a.ticks

\* RotorAngle.to_degrees, in ticks from the vertical (exact, no float)
to_degrees(a) == (a.sector - 1) * SECTOR_TICKS + a.ticks

\* sector_half with the midpoint counted in the first half (C8 tells it from
\* the code)
sector_half_midpoint_first(a) == IF a.ticks <= SECTOR_TICKS \div 2 THEN 1 ELSE 2

sector_half(a) == IF a.ticks < SECTOR_TICKS \div 2 THEN 1 ELSE 2

\* move_one_sector without the wraparound (C19 tells it from the code)
move_one_sector_no_wrap(a, clockwise) ==
    IF clockwise
        THEN [a EXCEPT !.sector = a.sector + 1]
        ELSE [a EXCEPT !.sector = a.sector - 1]

\* move_one_sector stopping at sector 200 instead of wrapping clockwise (C20
\* tells it from the code)
move_one_sector_stopping(a, clockwise) ==
    IF clockwise
        THEN [a EXCEPT !.sector = IF a.sector = SECTOR_COUNT THEN a.sector ELSE a.sector + 1]
        ELSE [a EXCEPT !.sector = ((a.sector - 2) % SECTOR_COUNT) + 1]

move_one_sector(a, clockwise) ==
    IF clockwise
        THEN [a EXCEPT !.sector = (a.sector % SECTOR_COUNT) + 1]
        ELSE [a EXCEPT !.sector = ((a.sector - 2) % SECTOR_COUNT) + 1]

\* rotate_to_sector_boundary without the wrap from sector 200 to sector 1
\* (C17 tells it from the code)
rotate_to_sector_boundary_no_wrap(a, clockwise) ==
    IF a.ticks = 0 THEN a
    ELSE [sector |-> IF clockwise THEN a.sector + 1 ELSE a.sector,
          ticks  |-> 0]

\* rotate_to_sector_boundary without its early return for an aligned angle
\* (C21 tells it from the code)
rotate_to_sector_boundary_unchecked(a, clockwise) ==
    [sector |-> IF clockwise THEN (a.sector % SECTOR_COUNT) + 1 ELSE a.sector,
     ticks  |-> 0]

rotate_to_sector_boundary(a, clockwise) ==
    IF a.ticks = 0 THEN a
    ELSE [sector |-> IF clockwise THEN (a.sector % SECTOR_COUNT) + 1 ELSE a.sector,
          ticks  |-> 0]

(***************************************************************************)
(* electric_cycle.py                                                       *)
(***************************************************************************)

MAX_MICROSTEPS == 16

\* resolution of the electrical angle: one electrical cycle is UNITS units,
\* a multiple of the table length and of the ticks of four sectors
UNITS == 4 * MAX_MICROSTEPS * SECTOR_TICKS

\* code of the real number cos(2*pi*k/UNITS)
Cos(k) ==
    LET m == k % UNITS
    IN  IF m <= UNITS \div 2 THEN m ELSE UNITS - m

\* code of the real number sin(2*pi*k/UNITS) = cos(2*pi*(k - UNITS/4)/UNITS)
Sin(k) == Cos(k - (UNITS \div 4))

Plus1  == 0
Zero   == UNITS \div 4
Minus1 == UNITS \div 2
NoCurrent == -1

\* code of the double -1.8e-16 that math.cos returns for 3*pi/2: a current
\* below 0 whose duty is 0 (math.cos(pi/2) and math.sin(pi) return doubles
\* above 0 whose duty is 0: they are held as Zero)
MinusZero == UNITS

\* math.cos of the double of the angle 2*pi*k/UNITS
float_cos(k) == IF k % UNITS = 3 * (UNITS \div 4) THEN MinusZero ELSE Cos(k)

\* calculate_currents_sinusoidal at cycle position n/num_stages
calculate_currents_sinusoidal(n, num_stages) ==
    LET theta == (n * UNITS) \div num_stages
    IN  <<Cos(theta), Sin(theta)>>

\* entry n of calculate_electric_cycle(num_microsteps, sinusoidal)
electric_cycle_entry(n, num_microsteps) ==
    LET num_stages == 4 * num_microsteps
    IN  IF n = 0 THEN <<Plus1, Zero>>
        ELSE IF n = num_microsteps THEN <<Zero, Plus1>>
        ELSE IF n = 2 * num_microsteps THEN <<Minus1, Zero>>
        ELSE IF n = 3 * num_microsteps THEN <<Zero, Minus1>>
        ELSE calculate_currents_sinusoidal(n, num_stages)

\* self.electric_cycle: the table built once at MAX_MICROSTEPS
electric_cycle == [n \in 0..(4 * MAX_MICROSTEPS - 1) |-> electric_cycle_entry(n, MAX_MICROSTEPS)]

\* calculate_electric_cycle with a current_calculator of any kind.  The
\* calculators a table is built with: the sinusoidal one of the sources and
\* two stand-ins for a caller's own, one that returns the sinusoidal pair
\* swapped (at no position the pair the table hard-codes there) and one that
\* returns the same pair, outside the range of a current, at every position
STRATEGIES == {"sinusoidal", "swapped", "constant"}

\* current_calculator(n / num_stages)
current_calculator(strategy, n, num_stages) ==
    CASE strategy = "sinusoidal" -> calculate_currents_sinusoidal(n, num_stages)
      [] strategy = "swapped"    -> <<calculate_currents_sinusoidal(n, num_stages)[2],
                                      calculate_currents_sinusoidal(n, num_stages)[1]>>
      [] strategy = "constant"   -> <<NoCurrent, NoCurrent>>

\* a call of calculate_electric_cycle: its arguments, its position ("loop"
\* before a pass of its for loop, "returned" after its return), the loop
\* variable n, the list electric_cycle (entry n of the list is element n + 1
\* of the sequence) and the n of every call of the current_calculator
NoTable == [num_microsteps |-> 0, strategy |-> "", at |-> "", n |-> 0,
            electric_cycle |-> <<>>, calls |-> <<>>]

\* one pass of the for loop calling the current_calculator at every stage
\* (C22 tells it from the code)
cycle_stage_all_calculated(t) ==
    LET num_stages == 4 * t.num_microsteps
    IN  [t EXCEPT !.electric_cycle =
                      Append(@, current_calculator(t.strategy, t.n, num_stages)),
                  !.calls = Append(@, t.n),
                  !.n = @ + 1]

\* one pass of the for loop calling the current_calculator with the
\* position of the next stage (C23 tells it from the code)
cycle_stage_next_position(t) ==
    LET num_stages == 4 * t.num_microsteps
        n == t.n
        hard_coded == IF n = 0 THEN <<Plus1, Zero>>
                      ELSE IF n = t.num_microsteps THEN <<Zero, Plus1>>
                      ELSE IF n = 2 * t.num_microsteps THEN <<Minus1, Zero>>
                      ELSE IF n = 3 * t.num_microsteps THEN <<Zero, Minus1>>
                      ELSE <<>>
    IN  IF hard_coded # <<>>
            THEN [t EXCEPT !.electric_cycle = Append(@, hard_coded), !.n = @ + 1]
            ELSE [t EXCEPT !.electric_cycle =
                               Append(@, current_calculator(t.strategy, n + 1, num_stages)),
                           !.calls = Append(@, n),
                           !.n = @ + 1]

\* one pass of the for loop of calculate_electric_cycle
cycle_stage(t) ==
    LET num_stages == 4 * t.num_microsteps
        n == t.n
        hard_coded == IF n = 0 THEN <<Plus1, Zero>>
                      ELSE IF n = t.num_microsteps THEN <<Zero, Plus1>>
                      ELSE IF n = 2 * t.num_microsteps THEN <<Minus1, Zero>>
                      ELSE IF n = 3 * t.num_microsteps THEN <<Zero, Minus1>>
                      ELSE <<>>
    IN  IF hard_coded # <<>>
            THEN [t EXCEPT !.electric_cycle = Append(@, hard_coded), !.n = @ + 1]
            ELSE [t EXCEPT !.electric_cycle =
                               Append(@, current_calculator(t.strategy, n, num_stages)),
                           !.calls = Append(@, n),
                           !.n = @ + 1]

(***************************************************************************)
(* microstepper.py: the methods as transformers of the controller state    *)
(*   st = [angle, IA, IB, pins, writes, phases, waits, err]                *)
(* angle is self.rotor_angle, IA and IB the current last commanded to      *)
(* each phase, pins the values the pins of the H-bridge hold, writes the    *)
(* number of _energize_phase calls of the running call, phases the phases  *)
(* these calls named, in order (the first WritesCap of them), waits the    *)
(* number of time.sleep calls of the running call (up to WaitsCap), err    *)
(* the exception that ended it ("" when none).                             *)
(***************************************************************************)

DIRECTIONS == {"cw", "ccw", "closest"}

align_actions == << <<"A", Plus1>>, <<"B", Plus1>>, <<"A", Minus1>>, <<"B", Minus1>> >>

Raise(st, e) == [st EXCEPT !.err = e]

\* the property is_aligned: False while there is no rotor_angle
is_aligned(a) == a # NoAngle /\ a.ticks = 0

\* the property aligned_position read whether the rotor is aligned or not
\* (C26 tells it from the code)
aligned_position_unchecked(a) == ((a.sector - 1) % 4) + 1

\* the property aligned_position: 1..4, and 0 for None
aligned_position(a) == IF is_aligned(a) THEN ((a.sector - 1) % 4) + 1 ELSE 0

\* caps of what is recorded of a call: the phases energized, the waits
WritesCap == 3
WaitsCap  == 8

Min(a, b) == IF a < b THEN a ELSE b

Logged(phases, phase) ==
    IF Len(phases) < WritesCap THEN Append(phases, phase) ELSE phases

\* the pins of the H-bridge: the values last written to the direction pins
\* of each phase and the duty last written to its PWM; NoPins before any
\* write
NoPins == [ain1 |-> 0, ain2 |-> 0, pwma |-> 0, bin1 |-> 0, bin2 |-> 0, pwmb |-> 0]

\* I >= 0 for the current of code I
NonNegative(I) == I # MinusZero /\ I <= Zero

\* int(abs(I) * 65535) in doubles, for the codes of abs(I) the controller
\* computes: the multiples of 16 (positions in a sector) and of 18 (entries
\* of the table)
DUTY_U16 ==
    (0 :> 65535) @@ (16 :> 65285) @@ (18 :> 65219) @@ (32 :> 64539) @@
    (36 :> 64275) @@ (48 :> 63301) @@ (54 :> 62713) @@ (64 :> 61582) @@
    (72 :> 60546) @@ (80 :> 59394) @@ (90 :> 57796) @@ (96 :> 56754) @@
    (108 :> 54490) @@ (112 :> 53683) @@ (126 :> 50659) @@ (128 :> 50202) @@
    (144 :> 46340) @@ (160 :> 42125) @@ (162 :> 41574) @@ (176 :> 37589) @@
    (180 :> 36409) @@ (192 :> 32767) @@ (198 :> 30892) @@ (208 :> 27696) @@
    (216 :> 25079) @@ (224 :> 22414) @@ (234 :> 19023) @@ (240 :> 16961) @@
    (252 :> 12785) @@ (256 :> 11380) @@ (270 :> 6423) @@ (272 :> 5711) @@
    (288 :> 0)

duty_u16(I) ==
    IF I = MinusZero THEN 0 ELSE DUTY_U16[Min(I, (UNITS \div 2) - I)]

\* a duration in seconds, the exact quotient num / den
Seconds(num, den) == [num |-> num, den |-> den]

Divided(d, n) == [num |-> d.num, den |-> d.den * n]

Negative(d) == (d.num < 0 /\ d.den > 0) \/ (d.num > 0 /\ d.den < 0)

SameDuration(a, b) == a.num * b.den = b.num * a.den

LongerThan(a, b) ==
    IF (a.den > 0) = (b.den > 0) THEN a.num * b.den > b.num * a.den
                                 ELSE a.num * b.den < b.num * a.den

\* the default of the argument delay of set_rotor, 0.01 s
DELAY == Seconds(1, 100)

\* the record of a call keeps its first st.keep commands and waits
Kept(st, log, e) == IF Len(log) < st.keep THEN Append(log, e) ELSE log

\* self.rotor_angle = a, recorded in the path of the call
Moved(st, a) == [st EXCEPT !.angle = a, !.path = Kept(st, @, a)]

\* _energize_phase writing in1 = 1, in2 = 0 whatever the sign of I (C30
\* tells it from the code)
energize_phase_forward_only(dbg, st, phase, I) ==
    IF dbg /\ phase \notin {"A", "B"} THEN Raise(st, "AssertionError")
    ELSE
        LET duty == duty_u16(I)
        IN  IF phase = "A"
                THEN [st EXCEPT !.IA = I, !.writes = @ + 1, !.phases = Logged(@, "A"),
                                !.commands = Kept(st, @, <<"A", I>>),
                                !.pins = [@ EXCEPT !.ain1 = 1, !.ain2 = 0, !.pwma = duty]]
                ELSE [st EXCEPT !.IB = I, !.writes = @ + 1, !.phases = Logged(@, "B"),
                                !.commands = Kept(st, @, <<"B", I>>),
                                !.pins = [@ EXCEPT !.bin1 = 1, !.bin2 = 0, !.pwmb = duty]]

\* _energize_phase(phase, I): the pins of the phase are selected, the two
\* direction pins are written from the sign of I and the PWM duty from its
\* absolute value
energize_phase(dbg, st, phase, I) ==
    IF dbg /\ phase \notin {"A", "B"} THEN Raise(st, "AssertionError")
    ELSE
        LET in1  == IF NonNegative(I) THEN 1 ELSE 0
            in2  == IF NonNegative(I) THEN 0 ELSE 1
            duty == duty_u16(I)
        IN  IF phase = "A"
                THEN [st EXCEPT !.IA = I, !.writes = @ + 1, !.phases = Logged(@, "A"),
                                !.commands = Kept(st, @, <<"A", I>>),
                                !.pins = [@ EXCEPT !.ain1 = in1, !.ain2 = in2, !.pwma = duty]]
                ELSE [st EXCEPT !.IB = I, !.writes = @ + 1, !.phases = Logged(@, "B"),
                                !.commands = Kept(st, @, <<"B", I>>),
                                !.pins = [@ EXCEPT !.bin1 = in1, !.bin2 = in2, !.pwmb = duty]]

\* align_rotor without its early return for an aligned rotor (C7 tells it
\* from the code)
align_rotor_unchecked(dbg, st, direction) ==
    IF dbg /\ direction \notin DIRECTIONS THEN Raise(st, "AssertionError")
    ELSE
        LET sector_norm  == ((st.angle.sector - 1) % 4) + 1
            position_ccw == sector_norm
            position_cw  == (sector_norm % 4) + 1
            position     == IF direction = "cw" THEN position_cw
                            ELSE IF direction = "ccw" THEN position_ccw
                            ELSE IF sector_half(st.angle) = 1 THEN position_ccw
                            ELSE position_cw
            moved        == [st EXCEPT !.angle =
                                rotate_to_sector_boundary(@, position = position_cw)]
            action       == align_actions[position]
        IN  energize_phase(dbg, moved, action[1], action[2])

\* align_rotor energizing the entry of the boundary behind the rotor whatever
\* the boundary it moves to (C9 tells it from the code)
align_rotor_entry_behind(dbg, st, direction) ==
    IF dbg /\ direction \notin DIRECTIONS THEN Raise(st, "AssertionError")
    ELSE IF is_aligned(st.angle) THEN st
    ELSE
        LET sector_norm  == ((st.angle.sector - 1) % 4) + 1
            position_ccw == sector_norm
            position_cw  == (sector_norm % 4) + 1
            position     == IF direction = "cw" THEN position_cw
                            ELSE IF direction = "ccw" THEN position_ccw
                            ELSE IF sector_half(st.angle) = 1 THEN position_ccw
                            ELSE position_cw
            moved        == [st EXCEPT !.angle =
                                rotate_to_sector_boundary(@, position = position_cw)]
            action       == align_actions[position_ccw]
        IN  energize_phase(dbg, moved, action[1], action[2])

align_rotor(dbg, st, direction) ==
    IF dbg /\ direction \notin DIRECTIONS THEN Raise(st, "AssertionError")
    ELSE IF is_aligned(st.angle) THEN st
    ELSE
        LET sector_norm  == ((st.angle.sector - 1) % 4) + 1
            position_ccw == sector_norm
            position_cw  == (sector_norm % 4) + 1
            position     == IF direction = "cw" THEN position_cw
                            ELSE IF direction = "ccw" THEN position_ccw
                            ELSE IF sector_half(st.angle) = 1 THEN position_ccw
                            ELSE position_cw
            moved        == Moved(st, rotate_to_sector_boundary(st.angle,
                                                                position = position_cw))
            action       == align_actions[position]
        IN  energize_phase(dbg, moved, action[1], action[2])

\* _rotate_sector up to the loop: the four assertions and the stride
rotate_sector_entry(dbg, st, direction, num_microsteps) ==
    IF dbg /\ ~is_power_of_2(num_microsteps) THEN "AssertionError"
    ELSE IF dbg /\ ~(num_microsteps <= MAX_MICROSTEPS) THEN "AssertionError"
    ELSE IF dbg /\ direction \notin {"cw", "ccw"} THEN "AssertionError"
    ELSE IF dbg /\ ~is_aligned(st.angle) THEN "AssertionError"
    ELSE IF num_microsteps = 0 THEN "ZeroDivisionError"
    ELSE ""

\* the index into electric_cycle counted from the microstep, not from the
\* microstep + 1 (C34 tells it from the code)
cycle_index_zero_based(sector, direction, microstep, num_microsteps) ==
    LET starting_quarter == ((sector - 1) % 4) + 1
        offset == (starting_quarter - 1) * MAX_MICROSTEPS
        stride == MAX_MICROSTEPS \div num_microsteps
    IN  IF direction = "cw"
            THEN (offset + microstep * stride) % Cardinality(DOMAIN electric_cycle)
            ELSE (offset - microstep * stride) % Cardinality(DOMAIN electric_cycle)

\* the index into electric_cycle of one microstep of _rotate_sector
cycle_index(sector, direction, microstep, num_microsteps) ==
    LET starting_quarter == ((sector - 1) % 4) + 1
        offset == (starting_quarter - 1) * MAX_MICROSTEPS
        stride == MAX_MICROSTEPS \div num_microsteps
    IN  IF direction = "cw"
            THEN (offset + (microstep + 1) * stride) % Cardinality(DOMAIN electric_cycle)
            ELSE (offset - (microstep + 1) * stride) % Cardinality(DOMAIN electric_cycle)

\* the body of the loop of _rotate_sector: both phases are energized, then
\* time.sleep is called
rotate_sector_microstep(dbg, st, direction, duration, microstep, num_microsteps) ==
    LET I == electric_cycle[cycle_index(st.angle.sector, direction, microstep, num_microsteps)]
        energized == energize_phase(dbg, energize_phase(dbg, st, "A", I[1]), "B", I[2])
        wait == Divided(duration, num_microsteps)
    IN  IF energized.err # "" THEN energized
        ELSE IF Negative(wait) THEN Raise(energized, "ValueError")
        ELSE [energized EXCEPT !.waits = Min(@ + 1, WaitsCap),
                               !.sleeps = Kept(energized, @, wait)]

\* the loop of _rotate_sector for the microsteps lo..hi-1, in order; an
\* exception raised by a pass ends the loop (the range is halved so that
\* the evaluation stays shallow)
RECURSIVE rotate_sector_loop(_, _, _, _, _, _, _)
rotate_sector_loop(dbg, st, direction, duration, lo, hi, num_microsteps) ==
    IF lo >= hi \/ st.err # "" THEN st
    ELSE IF hi = lo + 1
        THEN rotate_sector_microstep(dbg, st, direction, duration, lo, num_microsteps)
    ELSE LET mid   == (lo + hi) \div 2
             first == rotate_sector_loop(dbg, st, direction, duration, lo, mid, num_microsteps)
         IN  rotate_sector_loop(dbg, first, direction, duration, mid, hi, num_microsteps)

\* _rotate_sector run to its end (no exception reaches it from outside)
rotate_sector(dbg, st, direction, duration, num_microsteps) ==
    LET e == rotate_sector_entry(dbg, st, direction, num_microsteps)
    IN  IF e # "" THEN Raise(st, e)
        ELSE LET done == rotate_sector_loop(dbg, st, direction, duration,
                                            0, num_microsteps, num_microsteps)
             IN  IF done.err # "" THEN done
                 ELSE [Moved(done, move_one_sector(done.angle, direction = "cw"))
                          EXCEPT !.sectors = @ + 1]

\* the loop of _rotate_sectors for the passes i..num_sectors-1, in order; an
\* exception raised by a pass ends the loop (the range is halved so that
\* the evaluation stays shallow)
RECURSIVE rotate_sectors_loop(_, _, _, _, _, _, _)
rotate_sectors_loop(dbg, st, direction, period, i, num_sectors, num_microsteps) ==
    IF ~(i < num_sectors) \/ st.err # "" THEN st
    ELSE IF num_sectors = i + 1
        THEN rotate_sector(dbg, st, direction, period, num_microsteps)
    ELSE LET mid   == (i + num_sectors) \div 2
             first == rotate_sectors_loop(dbg, st, direction, period, i, mid, num_microsteps)
         IN  rotate_sectors_loop(dbg, first, direction, period, mid, num_sectors, num_microsteps)

\* _rotate_sectors turning clockwise whatever the sign of the count (C15
\* tells it from the code)
rotate_sectors_clockwise(dbg, st, num_sectors, period, num_microsteps) ==
    IF dbg /\ ~is_aligned(st.angle) THEN Raise(st, "AssertionError")
    ELSE IF num_sectors = 0 THEN st
    ELSE rotate_sectors_loop(dbg, st, "cw", period, 0, Abs(num_sectors), num_microsteps)

\* _rotate_sectors for a finite signed count
rotate_sectors(dbg, st, num_sectors, period, num_microsteps) ==
    IF dbg /\ ~is_aligned(st.angle) THEN Raise(st, "AssertionError")
    ELSE IF num_sectors = 0 THEN st
    ELSE rotate_sectors_loop(dbg, st, IF num_sectors > 0 THEN "cw" ELSE "ccw", period,
                             0, Abs(num_sectors), num_microsteps)

\* _rotate_in_sector without its early return for the current ticks (C16
\* tells it from the code)
rotate_in_sector_unchecked(dbg, st, target_ticks) ==
    LET target_position == RotorAngle_init(dbg, st.angle.sector, target_ticks)
    IN  IF dbg /\ ~(0 <= target_ticks /\ target_ticks < SECTOR_TICKS)
            THEN Raise(st, "AssertionError")
        ELSE IF target_position.err # "" THEN Raise(st, target_position.err)
        ELSE
            LET position_ccw == ((st.angle.sector - 1) % 4) + 1
                electric_angle_aligned == (position_ccw - 1) * (UNITS \div 4)
                incremental_electric_angle ==
                    IF target_ticks > 0
                        THEN (target_ticks * (UNITS \div 2)) \div (2 * SECTOR_TICKS)
                        ELSE 0
                electric_angle == electric_angle_aligned + incremental_electric_angle
                a == energize_phase(dbg, st, "A", float_cos(electric_angle))
                b == energize_phase(dbg, a, "B", Sin(electric_angle))
            IN  [b EXCEPT !.angle = target_position.angle]

\* _rotate_in_sector(target_ticks)
rotate_in_sector(dbg, st, target_ticks) ==
    LET target_position == RotorAngle_init(dbg, st.angle.sector, target_ticks)
    IN  IF dbg /\ ~(0 <= target_ticks /\ target_ticks < SECTOR_TICKS)
            THEN Raise(st, "AssertionError")
        ELSE IF target_position.err # "" THEN Raise(st, target_position.err)
        ELSE IF target_ticks = st.angle.ticks THEN st
        ELSE
            LET position_ccw == ((st.angle.sector - 1) % 4) + 1
                electric_angle_aligned == (position_ccw - 1) * (UNITS \div 4)
                incremental_electric_angle ==
                    IF target_ticks > 0
                        THEN (target_ticks * (UNITS \div 2)) \div (2 * SECTOR_TICKS)
                        ELSE 0
                electric_angle == electric_angle_aligned + incremental_electric_angle
                a == energize_phase(dbg, st, "A", float_cos(electric_angle))
                b == energize_phase(dbg, a, "B", Sin(electric_angle))
            IN  Moved(b, target_position.angle)

\* to_degrees is a double: (sector - 1) * 1.8 + ticks * 1.8 / SECTOR_TICKS.
\* set_rotor compares (trgt - curr) % 360 with (curr - trgt) % 360 in doubles.
\* The two orders agree with the exact ones except when the target is exactly
\* half a turn from the current angle: then the doubles are either equal or
\* 180.00000000000003 against 179.99999999999997.  FLOAT_TIE_CCW is the set
\* of the current angles, in ticks, for which they are the latter.
FLOAT_TIE_CCW == {
    21, 22, 26, 27, 31, 32, 57, 62, 67, 72, 75, 76, 77, 80, 81, 82, 85,
    86, 87, 111, 112, 116, 117, 121, 122, 147, 152, 157, 162, 165, 166,
    167, 170, 171, 172, 175, 176, 177, 201, 202, 206, 207, 211, 212, 252,
    255, 256, 257, 260, 261, 262, 265, 266, 267, 291, 292, 296, 297, 301,
    302, 327, 332, 337, 345, 346, 350, 351, 355, 356, 381, 386, 391, 417,
    422, 427, 435, 436, 440, 441, 445, 446, 471, 476, 481, 507, 512, 517,
    525, 526, 530, 531, 535, 536, 561, 566, 571, 597, 602, 607, 615, 616,
    620, 621, 625, 626, 651, 656, 661, 705, 710, 715, 741, 746, 751, 774,
    775, 777, 779, 780, 782, 784, 785, 787, 789, 790, 811, 816, 821, 826,
    829, 831, 834, 836, 839, 841, 844, 847, 849, 852, 854, 857, 859, 862,
    864, 865, 867, 869, 870, 872, 874, 875, 877, 879, 880, 901, 906, 911,
    916, 919, 921, 924, 926, 929, 931, 934, 937, 939, 942, 944, 947, 949,
    952, 954, 955, 957, 959, 960, 962, 964, 965, 967, 969, 970, 991, 996,
    1001, 1006, 1009, 1011, 1014, 1016, 1019, 1021, 1024, 1027, 1029,
    1032, 1034, 1037, 1039, 1042, 1044, 1045, 1047, 1049, 1050, 1052,
    1054, 1055, 1057, 1059, 1060, 1081, 1086, 1091, 1096, 1099, 1101,
    1104, 1106, 1109, 1111, 1114, 1117, 1119, 1122, 1124, 1127, 1129,
    1132, 1134, 1135, 1137, 1139, 1140, 1142, 1144, 1145, 1147, 1149,
    1150, 1171, 1176, 1181, 1186, 1189, 1191, 1194, 1196, 1199, 1201,
    1204, 1207, 1209, 1212, 1214, 1217, 1219, 1222, 1224, 1225, 1227,
    1229, 1230, 1232, 1234, 1235, 1237, 1239, 1240, 1261, 1266, 1271,
    1276, 1279, 1281, 1284, 1286, 1289, 1291, 1294, 1296, 1297, 1298,
    1299, 1301, 1302, 1303, 1304, 1306, 1307, 1308, 1309, 1311, 1312,
    1313, 1314, 1315, 1316, 1317, 1319, 1320, 1321, 1322, 1324, 1325,
    1326, 1327, 1329, 1330, 1331, 1351, 1356, 1361, 1366, 1369, 1374,
    1379, 1384, 1386, 1387, 1388, 1389, 1391, 1392, 1393, 1394, 1396,
    1397, 1398, 1399, 1401, 1402, 1403, 1404, 1405, 1406, 1407, 1409,
    1410, 1411, 1412, 1414, 1415, 1416, 1417, 1419, 1420, 1421, 1441,
    1446, 1451, 1456, 1459, 1464, 1469, 1474, 1476, 1477, 1478, 1479,
    1481, 1482, 1483, 1484, 1486, 1487, 1488, 1489, 1491, 1492, 1493,
    1494, 1495, 1496, 1497, 1499, 1500, 1501, 1502, 1504, 1505, 1506,
    1507, 1509, 1510, 1511, 1531, 1536, 1541, 1546, 1549, 1554, 1559,
    1564, 1566, 1567, 1568, 1569, 1571, 1572, 1573, 1574, 1576, 1577,
    1578, 1579, 1581, 1582, 1583, 1584, 1585, 1586, 1587, 1589, 1590,
    1591, 1592, 1594, 1595, 1596, 1597, 1599, 1600, 1601, 1621, 1626,
    1631, 1636, 1639, 1644, 1649, 1654, 1656, 1657, 1658, 1659, 1661,
    1662, 1663, 1664, 1666, 1667, 1668, 1669, 1671, 1672, 1673, 1674,
    1675, 1676, 1677, 1679, 1680, 1681, 1682, 1684, 1685, 1686, 1687,
    1689, 1690, 1691, 1711, 1716, 1721, 1726, 1729, 1734, 1739, 1744,
    1746, 1747, 1748, 1749, 1751, 1752, 1753, 1754, 1756, 1757, 1758,
    1759, 1761, 1762, 1763, 1764, 1765, 1766, 1767, 1769, 1770, 1771,
    1772, 1774, 1775, 1776, 1777, 1779, 1780, 1781, 1838, 1843, 1848,
    1853, 1928, 1933, 1938, 1943, 2018, 2023, 2028, 2033, 2108, 2113,
    2118, 2123, 2198, 2203, 2208, 2213, 2288, 2293, 2298, 2303, 2378,
    2383, 2388, 2393, 2468, 2473, 2478, 2483, 2558, 2564, 2569, 2594,
    2596, 2599, 2601, 2604, 2606, 2609, 2614, 2619, 2624, 2684, 2686,
    2689, 2691, 2694, 2696, 2699, 2704, 2709, 2714, 2774, 2776, 2779,
    2781, 2784, 2786, 2789, 2794, 2799, 2804, 2864, 2866, 2869, 2871,
    2874, 2876, 2879, 2884, 2889, 2894, 2954, 2956, 2959, 2961, 2964,
    2966, 2969, 2974, 2979, 2984, 3044, 3046, 3049, 3051, 3054, 3056,
    3059, 3064, 3069, 3074, 3132, 3134, 3135, 3136, 3137, 3139, 3140,
    3141, 3142, 3144, 3145, 3146, 3147, 3149, 3154, 3159, 3164, 3172,
    3177, 3182, 3222, 3224, 3225, 3226, 3227, 3229, 3230, 3231, 3232,
    3234, 3235, 3236, 3237, 3239, 3244, 3249, 3254, 3262, 3267, 3272,
    3312, 3314, 3315, 3316, 3317, 3319, 3320, 3321, 3322, 3324, 3325,
    3326, 3327, 3329, 3334, 3339, 3344, 3352, 3357, 3362, 3402, 3404,
    3405, 3406, 3407, 3409, 3410, 3411, 3412, 3414, 3415, 3416, 3417,
    3419, 3424, 3429, 3434, 3442, 3447, 3452, 3492, 3494, 3495, 3496,
    3497, 3499, 3500, 3501, 3502, 3504, 3505, 3506, 3507, 3509, 3514,
    3519, 3524, 3532, 3537, 3542, 3582, 3584, 3585, 3586, 3587, 3589,
    3590, 3591, 3592, 3594, 3595, 3596, 3597, 3599 }

\* the direction of the longer way round (C37 tells it from the code)
closest_direction_longer(current, target) ==
    LET angle_cw  == (to_degrees(target) - to_degrees(current)) % TOTAL_TICKS
        angle_ccw == (to_degrees(current) - to_degrees(target)) % TOTAL_TICKS
    IN  IF angle_cw < angle_ccw THEN "ccw" ELSE "cw"

\* the direction set_rotor takes for direction = "closest"
closest_direction(current, target) ==
    LET angle_cw  == (to_degrees(target) - to_degrees(current)) % TOTAL_TICKS
        angle_ccw == (to_degrees(current) - to_degrees(target)) % TOTAL_TICKS
    IN  IF angle_cw < angle_ccw THEN "cw"
        ELSE IF angle_cw > angle_ccw THEN "ccw"
        ELSE IF to_degrees(current) \in FLOAT_TIE_CCW THEN "ccw"
        ELSE "cw"

\* set_rotor without its two special cases: every call aligns, rotates
\* sectors and positions in the sector (C13 tells it from the code)
set_rotor_general_path(dbg, st, h, direction, num_microsteps) ==
    LET target_position == from_degrees(dbg, h)
        target          == target_position.angle
    IN  IF dbg /\ direction \notin DIRECTIONS THEN Raise(st, "AssertionError")
        ELSE IF target_position.err # "" THEN Raise(st, target_position.err)
        ELSE
            LET current_sector == st.angle.sector
                target_sector  == target.sector
            IN
                    LET dir == IF direction = "closest"
                                   THEN closest_direction(st.angle, target)
                                   ELSE direction
                        aligned == align_rotor(dbg, st, dir)
                        num_sectors ==
                            IF dir = "cw"
                                THEN (target_sector - current_sector) % SECTOR_COUNT
                                ELSE -((current_sector - target_sector) % SECTOR_COUNT)
                        rotated == IF aligned.err # "" THEN aligned
                                   ELSE rotate_sectors(dbg, aligned, num_sectors, DELAY, num_microsteps)
                    IN  IF rotated.err # "" THEN rotated
                        ELSE rotate_in_sector(dbg, rotated, target.ticks)

\* set_rotor without the special case of a target in the current sector
\* (C14 tells it from the code)
set_rotor_no_sector_case(dbg, st, h, direction, num_microsteps) ==
    LET target_position == from_degrees(dbg, h)
        target          == target_position.angle
    IN  IF dbg /\ direction \notin DIRECTIONS THEN Raise(st, "AssertionError")
        ELSE IF target_position.err # "" THEN Raise(st, target_position.err)
        ELSE IF target = st.angle THEN st
        ELSE
            LET current_sector == st.angle.sector
                target_sector  == target.sector
            IN
                    LET dir == IF direction = "closest"
                                   THEN closest_direction(st.angle, target)
                                   ELSE direction
                        aligned == align_rotor(dbg, st, dir)
                        num_sectors ==
                            IF dir = "cw"
                                THEN (target_sector - current_sector) % SECTOR_COUNT
                                ELSE -((current_sector - target_sector) % SECTOR_COUNT)
                        rotated == IF aligned.err # "" THEN aligned
                                   ELSE rotate_sectors(dbg, aligned, num_sectors, DELAY, num_microsteps)
                    IN  IF rotated.err # "" THEN rotated
                        ELSE rotate_in_sector(dbg, rotated, target.ticks)

\* set_rotor(target_angle, direction, num_microsteps), target_angle = h half ticks
set_rotor(dbg, st, h, direction, num_microsteps) ==
    LET target_position == from_degrees(dbg, h)
        target          == target_position.angle
    IN  IF dbg /\ direction \notin DIRECTIONS THEN Raise(st, "AssertionError")
        ELSE IF target_position.err # "" THEN Raise(st, target_position.err)
        ELSE IF target = st.angle THEN st
        ELSE
            LET current_sector == st.angle.sector
                target_sector  == target.sector
            IN  IF current_sector = target_sector
                    THEN rotate_in_sector(dbg, st, target.ticks)
                ELSE
                    LET dir == IF direction = "closest"
                                   THEN closest_direction(st.angle, target)
                                   ELSE direction
                        aligned == align_rotor(dbg, st, dir)
                        num_sectors ==
                            IF dir = "cw"
                                THEN (target_sector - current_sector) % SECTOR_COUNT
                                ELSE -((current_sector - target_sector) % SECTOR_COUNT)
                        rotated == IF aligned.err # "" THEN aligned
                                   ELSE rotate_sectors(dbg, aligned, num_sectors, DELAY, num_microsteps)
                    IN  IF rotated.err # "" THEN rotated
                        ELSE rotate_in_sector(dbg, rotated, target.ticks)

\* the num_revolutions that stands for float('inf')
INF  == -1

\* spin_rotor(num_revolutions, rpm, direction, num_microsteps) run to its
\* end, num_revolutions = r / (2 * SECTOR_COUNT); round raises OverflowError
\* for infinity
spin_rotor(dbg, st, r, rpm, direction, num_microsteps) ==
    IF dbg /\ direction \notin {"cw", "ccw"} THEN Raise(st, "AssertionError")
    ELSE IF dbg /\ r # INF /\ r < 0 THEN Raise(st, "AssertionError")
    ELSE IF r = INF THEN Raise(st, "OverflowError")
    ELSE IF rpm = 0 THEN Raise(st, "ZeroDivisionError")
    ELSE
        LET num_sectors == PyRound(r * SECTOR_COUNT, 2 * SECTOR_COUNT)
            period      == Seconds(60, SECTOR_COUNT * rpm)
            aligned     == align_rotor(dbg, st, direction)
        IN  IF aligned.err # "" THEN aligned
            ELSE rotate_sectors(dbg, aligned, num_sectors, period, num_microsteps)

(***************************************************************************)
(* StepperMotor (src/src/stepper_motor.py), the second controller.  Its    *)
(* __init__, is_aligned, aligned_position, _energize_phase and the table   *)
(* are those of MicrostepMotor; the methods below differ in their waits.   *)
(***************************************************************************)

\* StepperMotor.MIN_DELAY, 0.01 s
MIN_DELAY == Seconds(1, 100)

\* time.sleep(d): ValueError for a negative duration
sleep(st, d) ==
    IF Negative(d) THEN Raise(st, "ValueError")
    ELSE [st EXCEPT !.waits = Min(@ + 1, WaitsCap), !.sleeps = Kept(st, @, d)]

StepperMotor_align_rotor(dbg, st, direction) ==
    IF dbg /\ direction \notin DIRECTIONS THEN Raise(st, "AssertionError")
    ELSE IF is_aligned(st.angle) THEN st
    ELSE
        LET sector_norm  == ((st.angle.sector - 1) % 4) + 1
            position_ccw == sector_norm
            position_cw  == (sector_norm % 4) + 1
            position     == IF direction = "cw" THEN position_cw
                            ELSE IF direction = "ccw" THEN position_ccw
                            ELSE IF sector_half(st.angle) = 1 THEN position_ccw
                            ELSE position_cw
            moved        == Moved(st, rotate_to_sector_boundary(st.angle,
                                                                position = position_cw))
            action       == align_actions[position]
            energized    == energize_phase(dbg, moved, action[1], action[2])
        IN  IF energized.err # "" THEN energized ELSE sleep(energized, MIN_DELAY)

\* downtime = max(duration / num_microsteps, StepperMotor.MAX_MICROSTEPS)
downtime(duration, num_microsteps) ==
    IF LongerThan(Seconds(MAX_MICROSTEPS, 1), Divided(duration, num_microsteps))
        THEN Seconds(MAX_MICROSTEPS, 1)
        ELSE Divided(duration, num_microsteps)

\* the body of the loop of _rotate_full_step
StepperMotor_rotate_full_step_microstep(dbg, st, direction, duration, microstep, num_microsteps) ==
    LET I == electric_cycle[cycle_index(st.angle.sector, direction, microstep, num_microsteps)]
        energized == energize_phase(dbg, energize_phase(dbg, st, "A", I[1]), "B", I[2])
    IN  IF energized.err # "" THEN energized
        ELSE sleep(energized, downtime(duration, num_microsteps))

\* the loop of _rotate_full_step for the microsteps lo..hi-1, in order
RECURSIVE StepperMotor_rotate_full_step_loop(_, _, _, _, _, _, _)
StepperMotor_rotate_full_step_loop(dbg, st, direction, duration, lo, hi, num_microsteps) ==
    IF lo >= hi \/ st.err # "" THEN st
    ELSE IF hi = lo + 1
        THEN StepperMotor_rotate_full_step_microstep(dbg, st, direction, duration, lo,
                                                     num_microsteps)
    ELSE LET mid   == (lo + hi) \div 2
             first == StepperMotor_rotate_full_step_loop(dbg, st, direction, duration,
                                                         lo, mid, num_microsteps)
         IN  StepperMotor_rotate_full_step_loop(dbg, first, direction, duration,
                                                mid, hi, num_microsteps)

\* _rotate_full_step: the assertions and the stride are those of
\* _rotate_sector
StepperMotor_rotate_full_step(dbg, st, direction, duration, num_microsteps) ==
    LET e == rotate_sector_entry(dbg, st, direction, num_microsteps)
    IN  IF e # "" THEN Raise(st, e)
        ELSE LET done == StepperMotor_rotate_full_step_loop(dbg, st, direction, duration,
                                                            0, num_microsteps, num_microsteps)
             IN  IF done.err # "" THEN done
                 ELSE [Moved(done, move_one_sector(done.angle, direction = "cw"))
                          EXCEPT !.sectors = @ + 1]

\* the loop of _rotate_full_steps for the passes i..num_fullsteps-1
RECURSIVE StepperMotor_rotate_full_steps_loop(_, _, _, _, _, _, _)
StepperMotor_rotate_full_steps_loop(dbg, st, direction, time_per_step, i, num_fullsteps, num_microsteps) ==
    IF ~(i < num_fullsteps) \/ st.err # "" THEN st
    ELSE IF num_fullsteps = i + 1
        THEN StepperMotor_rotate_full_step(dbg, st, direction, time_per_step, num_microsteps)
    ELSE LET mid   == (i + num_fullsteps) \div 2
             first == StepperMotor_rotate_full_steps_loop(dbg, st, direction, time_per_step,
                                                          i, mid, num_microsteps)
         IN  StepperMotor_rotate_full_steps_loop(dbg, first, direction, time_per_step,
                                                 mid, num_fullsteps, num_microsteps)

\* _rotate_full_steps for a finite signed count
StepperMotor_rotate_full_steps(dbg, st, num_fullsteps, time_per_step, num_microsteps) ==
    IF dbg /\ ~is_aligned(st.angle) THEN Raise(st, "AssertionError")
    ELSE IF num_fullsteps = 0 THEN st
    ELSE StepperMotor_rotate_full_steps_loop(dbg, st,
                                             IF num_fullsteps > 0 THEN "cw" ELSE "ccw",
                                             time_per_step, 0, Abs(num_fullsteps),
                                             num_microsteps)

\* StepperMotor._rotate_in_sector without its early return for the current
\* ticks (C36 tells it from the code)
StepperMotor_rotate_in_sector_unchecked(dbg, st, target_ticks) ==
    rotate_in_sector_unchecked(dbg, st, target_ticks)

\* StepperMotor._rotate_in_sector: the RotorAngle is made after the phases
\* are energized
StepperMotor_rotate_in_sector(dbg, st, target_ticks) ==
    IF dbg /\ ~(0 <= target_ticks /\ target_ticks < SECTOR_TICKS)
        THEN Raise(st, "AssertionError")
    ELSE IF target_ticks = st.angle.ticks THEN st
    ELSE
        LET position_ccw == ((st.angle.sector - 1) % 4) + 1
            electric_angle_aligned == (position_ccw - 1) * (UNITS \div 4)
            incremental_electric_angle ==
                IF target_ticks > 0
                    THEN (target_ticks * (UNITS \div 2)) \div (2 * SECTOR_TICKS)
                    ELSE 0
            electric_angle == electric_angle_aligned + incremental_electric_angle
            a == energize_phase(dbg, st, "A", float_cos(electric_angle))
            b == energize_phase(dbg, a, "B", Sin(electric_angle))
            target_position == RotorAngle_init(dbg, st.angle.sector, target_ticks)
        IN  IF b.err # "" THEN b
            ELSE IF target_position.err # "" THEN Raise(b, target_position.err)
            ELSE Moved(b, target_position.angle)

\* StepperMotor.spin_rotor run to its end
StepperMotor_spin_rotor(dbg, st, r, rpm, direction, num_microsteps) ==
    IF dbg /\ r # INF /\ r < 0 THEN Raise(st, "AssertionError")
    ELSE IF dbg /\ ~(rpm > 0) THEN Raise(st, "AssertionError")
    ELSE IF dbg /\ direction \notin {"cw", "ccw"} THEN Raise(st, "AssertionError")
    ELSE IF r = INF THEN Raise(st, "OverflowError")
    ELSE IF rpm = 0 THEN Raise(st, "ZeroDivisionError")
    ELSE
        LET num_fullsteps == PyRound(r * FULL_STEPS_PER_REV, 2 * FULL_STEPS_PER_REV)
            time_per_step == Seconds(60, FULL_STEPS_PER_REV * rpm)
            aligned       == StepperMotor_align_rotor(dbg, st, direction)
        IN  IF aligned.err # "" THEN aligned
            ELSE StepperMotor_rotate_full_steps(dbg, aligned, num_fullsteps, time_per_step,
                                                num_microsteps)

\* StepperMotor.turn_rotor(target_angle, direction, num_microsteps)
StepperMotor_turn_rotor(dbg, st, h, direction, num_microsteps) ==
    LET target_position == from_degrees(dbg, h)
        target          == target_position.angle
    IN  IF dbg /\ direction \notin DIRECTIONS THEN Raise(st, "AssertionError")
        ELSE IF target_position.err # "" THEN Raise(st, target_position.err)
        ELSE IF target = st.angle THEN st
        ELSE
            LET current_sector == st.angle.sector
                target_sector  == target.sector
            IN  IF current_sector = target_sector
                    THEN LET positioned == StepperMotor_rotate_in_sector(dbg, st, target.ticks)
                         IN  IF positioned.err # "" THEN positioned
                             ELSE sleep(positioned, MIN_DELAY)
                ELSE
                    LET dir == IF direction = "closest"
                                   THEN closest_direction(st.angle, target)
                                   ELSE direction
                        aligned == StepperMotor_align_rotor(dbg, st, dir)
                        num_full_steps ==
                            IF dir = "cw"
                                THEN (target_sector - current_sector) % SECTOR_COUNT
                                ELSE -((current_sector - target_sector) % SECTOR_COUNT)
                        time_per_step == Seconds(MIN_DELAY.num * num_microsteps,
                                                 MIN_DELAY.den)
                        rotated == IF aligned.err # "" THEN aligned
                                   ELSE StepperMotor_rotate_full_steps(dbg, aligned,
                                            num_full_steps, time_per_step, num_microsteps)
                        positioned == IF rotated.err # "" THEN rotated
                                      ELSE StepperMotor_rotate_in_sector(dbg, rotated,
                                                                         target.ticks)
                    IN  IF positioned.err # "" THEN positioned
                        ELSE sleep(positioned, MIN_DELAY)

(***************************************************************************)
(* The controller as a state machine.                                      *)
(*   pc = "new"        before MicrostepMotor(...) is called                *)
(*   pc = "failed"     the constructor raised: no controller exists        *)
(*   pc = "idle"       between two calls of the public interface           *)
(*   pc = "microstep"  spin_rotor is in _rotate_sector, before a microstep  *)
(*   pc = "sleep"      spin_rotor is in the time.sleep of a microstep      *)
(* align_rotor and set_rotor run as one step; spin_rotor runs microstep by *)
(* microstep, and a KeyboardInterrupt may end it in any of its sleeps      *)
(* (test_rotate_sectors_infinite stops the rotation this way).             *)
(*   last    what the last call was and how it ended                       *)
(*   ncalls  the number of calls made so far                               *)
(*   clean   every call so far was made with a num_microsteps in           *)
(*           1, 2, 4, .. MAX_MICROSTEPS and returned normally              *)
(*   obj     a RotorAngle made on its own (AngleSpec)                      *)
(***************************************************************************)

\* bounds of the inputs
MaxCalls  == 2
MaxRev    == 3

\* num_revolutions = r / (2 * SECTOR_COUNT) for r in 0..MaxRev, or infinity
REVS == (0..MaxRev) \cup {INF}

\* rpm of the calls of spin_rotor that follow its documentation
RPMS == {60}

\* calls of spin_rotor outside its documentation, <<r, rpm, direction>>: a
\* negative num_revolutions (r = -2 is one sector backwards; r = -1 is taken
\* by INF), rpm = 0, rpm < 0 with and without sectors to rotate, and a
\* direction that is neither "cw" nor "ccw"
BAD_SPINS == { <<-2, 60, "cw">>, <<2, 0, "cw">>, <<2, -60, "cw">>,
               <<0, -60, "ccw">>, <<2, 60, "closest">> }

\* target angles of set_rotor, in half ticks (1/20 degree)
TARGETS == {0, 18, 42, 3642, 7198}

\* num_microsteps: 0, powers of two, a non power of two, one above the maximum
MICROSTEPS == {0, 1, 2, 3, 2 * MAX_MICROSTEPS}

\* num_microsteps of set_rotor: one legal value and one that is not a power
\* of two (its sector count is large: the values are small)
SET_MICROSTEPS == {0, 1}

NoFrame == [direction |-> "", num_sectors |-> 0, i |-> 0, microstep |-> 0,
            num_microsteps |-> 0, aligned_sector |-> 0, writes |-> 0,
            phases |-> <<>>, waits |-> 0,
            asked |-> "", arg |-> 0, rpm |-> 0]

NoLast == [op |-> "", dir |-> "", m |-> 0, arg |-> 0, err |-> "", writes |-> 0,
           phases |-> <<>>, waits |-> 0, rpm |-> 0, ret |-> FALSE]

NoObj == [sector |-> 0, ticks |-> 0, err |-> "none", angle |-> NoAngle]

\* the microstep counts of the documented contract: 1, 2, 4, .. MAX_MICROSTEPS
ValidMicrosteps(m) == m >= 1 /\ m <= MAX_MICROSTEPS /\ MAX_MICROSTEPS % m = 0

Here == [angle |-> rotor_angle, IA |-> IA, IB |-> IB, pins |-> pins, writes |-> 0,
         phases |-> <<>>, waits |-> 0, err |-> "", sectors |-> 0,
         keep |-> 0, commands |-> <<>>, sleeps |-> <<>>, path |-> <<>>]

Returned(op, dir, m, arg, st) ==
    [op |-> op, dir |-> dir, m |-> m, arg |-> arg, err |-> st.err,
     writes |-> Min(st.writes, WritesCap), phases |-> st.phases, waits |-> st.waits,
     rpm |-> 0, ret |-> FALSE]

\* the StepperMotor of PairSpec: its rotor angle, currents and pins, and of
\* its last call the exception, the commands and the waits
NoStepper == [angle |-> NoAngle, IA |-> NoCurrent, IB |-> NoCurrent, pins |-> NoPins,
              err |-> "", commands |-> <<>>, sleeps |-> <<>>, sectors |-> 0,
              path |-> <<>>]

\* of the last call of the MicrostepMotor of PairSpec: the commands, the
\* waits, the number of calls of _rotate_sector and the rotor angles it went
\* through
NoTrace == [commands |-> <<>>, sleeps |-> <<>>, sectors |-> 0, path |-> <<>>]

Init ==
    /\ debug \in BOOLEAN
    /\ pc = "new"
    /\ rotor_angle = NoAngle
    /\ IA = NoCurrent
    /\ IB = NoCurrent
    /\ pins = NoPins
    /\ frame = NoFrame
    /\ last = NoLast
    /\ ncalls = 0
    /\ clean = TRUE
    /\ obj = NoObj
    /\ table = NoTable
    /\ stepper = NoStepper
    /\ trace = NoTrace

\* MicrostepMotor.__init__ (StepperMotor.__init__ does the same)
Construct ==
    /\ pc = "new"
    /\ IF debug /\ ~(is_power_of_2(MAX_MICROSTEPS) /\ MAX_MICROSTEPS <= SECTOR_TICKS)
          THEN /\ pc' = "failed"
               /\ last' = Returned("__init__", "", 0, 0, Raise(Here, "AssertionError"))
               /\ UNCHANGED <<rotor_angle, IA, IB, pins>>
          ELSE LET a == energize_phase(debug, Here, "A", Plus1)
                   b == energize_phase(debug, a, "B", Zero)
                   r == RotorAngle_init(debug, 1, 0)
               IN  /\ IA' = b.IA
                   /\ IB' = b.IB
                   /\ pins' = b.pins
                   /\ rotor_angle' = r.angle
                   /\ pc' = IF r.err = "" THEN "idle" ELSE "failed"
                   /\ last' = Returned("__init__", "", 0, 0, Raise(b, r.err))
    /\ UNCHANGED <<debug, table, stepper, trace, frame, ncalls, clean, obj>>

AlignRotor(direction) ==
    /\ pc = "idle"
    /\ ncalls < MaxCalls
    /\ \E st \in {align_rotor(debug, Here, direction)} :
           /\ rotor_angle' = st.angle
           /\ IA' = st.IA
           /\ IB' = st.IB
           /\ pins' = st.pins
           /\ last' = Returned("align_rotor", direction, 0, 0, st)
           /\ clean' = (clean /\ st.err = "")
    /\ ncalls' = ncalls + 1
    /\ UNCHANGED <<debug, table, stepper, trace, pc, frame, obj>>

SetRotor(h, direction, num_microsteps) ==
    /\ pc = "idle"
    /\ ncalls < MaxCalls
    /\ \E st \in {set_rotor(debug, Here, h, direction, num_microsteps)} :
           /\ rotor_angle' = st.angle
           /\ IA' = st.IA
           /\ IB' = st.IB
           /\ pins' = st.pins
           /\ last' = Returned("set_rotor", direction, num_microsteps, h, st)
           /\ clean' = (clean /\ st.err = "" /\ ValidMicrosteps(num_microsteps))
    /\ ncalls' = ncalls + 1
    /\ UNCHANGED <<debug, table, stepper, trace, pc, frame, obj>>

\* spin_rotor up to the first microstep: the assertions, the conversion of
\* the revolutions, align_rotor, _rotate_sectors up to its loop and the
\* entry of the first _rotate_sector
spin_rotor_entry(dbg, st, r, rpm, direction, num_microsteps) ==
    IF dbg /\ direction \notin {"cw", "ccw"} THEN Raise(st, "AssertionError")
    ELSE IF dbg /\ r # INF /\ r < 0 THEN Raise(st, "AssertionError")
    ELSE IF r = INF THEN Raise(st, "OverflowError")
    ELSE IF rpm = 0 THEN Raise(st, "ZeroDivisionError")
    ELSE
        LET aligned == align_rotor(dbg, st, direction)
            num_sectors == PyRound(r * SECTOR_COUNT, 2 * SECTOR_COUNT)
        IN  IF aligned.err # "" \/ num_sectors = 0 THEN aligned
            ELSE Raise(aligned,
                       rotate_sector_entry(dbg, aligned,
                                           IF num_sectors > 0 THEN "cw" ELSE "ccw",
                                           num_microsteps))

SpinRotor(r, rpm, direction, num_microsteps) ==
    /\ pc = "idle"
    /\ ncalls < MaxCalls
    /\ \E st \in {spin_rotor_entry(debug, Here, r, rpm, direction, num_microsteps)},
          num_sectors \in {IF r = INF THEN 0 ELSE PyRound(r * SECTOR_COUNT, 2 * SECTOR_COUNT)} :
           /\ rotor_angle' = st.angle
           /\ IA' = st.IA
           /\ IB' = st.IB
           /\ pins' = st.pins
           /\ IF st.err # "" \/ num_sectors = 0
                 THEN /\ pc' = "idle"
                      /\ frame' = NoFrame
                      /\ last' = [Returned("spin_rotor", direction, num_microsteps, r, st)
                                    EXCEPT !.rpm = rpm]
                 ELSE /\ pc' = "microstep"
                      /\ frame' = [direction |-> IF num_sectors > 0 THEN "cw" ELSE "ccw",
                                   num_sectors |-> Abs(num_sectors), i |-> 0,
                                   microstep |-> 0, num_microsteps |-> num_microsteps,
                                   aligned_sector |-> st.angle.sector,
                                   writes |-> st.writes,
                                   phases |-> st.phases,
                                   waits |-> st.waits,
                                   asked |-> direction, arg |-> r, rpm |-> rpm]
                      /\ last' = NoLast
           /\ clean' = (clean /\ st.err = "" /\ ValidMicrosteps(num_microsteps))
    /\ ncalls' = ncalls + 1
    /\ UNCHANGED <<debug, table, stepper, trace, obj>>

\* one pass of the loop of _rotate_sector, up to its time.sleep; the
\* duration is period / num_microsteps with period = 60 / (SECTOR_COUNT *
\* rpm), and time.sleep raises ValueError for a negative duration, which
\* ends spin_rotor
Microstep ==
    /\ pc = "microstep"
    /\ \E st \in {rotate_sector_microstep(debug, Here, frame.direction,
                                            Seconds(60, SECTOR_COUNT * frame.rpm),
                                            frame.microstep, frame.num_microsteps)} :
           /\ IA' = st.IA
           /\ IB' = st.IB
           /\ pins' = st.pins
           /\ IF st.err # ""
                 THEN /\ last' = [op |-> "spin_rotor", dir |-> frame.asked,
                                  m |-> frame.num_microsteps, arg |-> frame.arg,
                                  err |-> st.err,
                                  writes |-> Min(frame.writes + st.writes, WritesCap),
                                  phases |-> SubSeq(frame.phases \o st.phases, 1,
                                                    Min(Len(frame.phases \o st.phases),
                                                        WritesCap)),
                                  waits |-> frame.waits, rpm |-> frame.rpm,
                                  ret |-> FALSE]
                      /\ frame' = NoFrame
                      /\ pc' = "idle"
                      /\ clean' = FALSE
                 ELSE /\ frame' = [frame EXCEPT
                                     !.writes = Min(@ + st.writes, WritesCap),
                                     !.phases = SubSeq(@ \o st.phases, 1,
                                                       Min(Len(@ \o st.phases), WritesCap)),
                                     !.waits = Min(@ + st.waits, WaitsCap)]
                      /\ pc' = "sleep"
                      /\ UNCHANGED <<last, clean>>
    /\ UNCHANGED <<debug, table, stepper, trace, rotor_angle, ncalls, obj>>

\* time.sleep returns and the loop of _rotate_sector goes on
NextMicrostep ==
    /\ pc = "sleep"
    /\ frame.microstep + 1 < frame.num_microsteps
    /\ frame' = [frame EXCEPT !.microstep = @ + 1]
    /\ pc' = "microstep"
    /\ UNCHANGED <<debug, table, stepper, trace, rotor_angle, IA, IB, pins, last, ncalls, clean, obj>>

\* time.sleep returns after the last microstep: move_one_sector, and the
\* loop of _rotate_sectors enters the next _rotate_sector
NextSector ==
    /\ pc = "sleep"
    /\ ~(frame.microstep + 1 < frame.num_microsteps)
    /\ frame.i + 1 < frame.num_sectors
    /\ rotor_angle' = move_one_sector(rotor_angle, frame.direction = "cw")
    /\ frame' = [frame EXCEPT !.i = @ + 1, !.microstep = 0]
    /\ pc' = "microstep"
    /\ UNCHANGED <<debug, table, stepper, trace, IA, IB, pins, last, ncalls, clean, obj>>

\* time.sleep returns after the last microstep of the last sector:
\* move_one_sector, and _rotate_sectors and spin_rotor return
SpinDone ==
    /\ pc = "sleep"
    /\ ~(frame.microstep + 1 < frame.num_microsteps)
    /\ ~(frame.i + 1 < frame.num_sectors)
    /\ rotor_angle' = move_one_sector(rotor_angle, frame.direction = "cw")
    /\ last' = [op |-> "spin_rotor", dir |-> frame.asked, m |-> frame.num_microsteps,
                arg |-> frame.arg, err |-> "", writes |-> frame.writes,
                phases |-> frame.phases, waits |-> frame.waits, rpm |-> frame.rpm,
                ret |-> FALSE]
    /\ frame' = NoFrame
    /\ pc' = "idle"
    /\ UNCHANGED <<debug, table, stepper, trace, IA, IB, pins, ncalls, clean, obj>>

\* a KeyboardInterrupt is raised in time.sleep and ends spin_rotor
KeyboardInterrupt ==
    /\ pc = "sleep"
    /\ last' = [op |-> "spin_rotor", dir |-> frame.asked, m |-> frame.num_microsteps,
                arg |-> frame.arg, err |-> "KeyboardInterrupt", writes |-> frame.writes,
                phases |-> frame.phases, waits |-> frame.waits, rpm |-> frame.rpm,
                ret |-> FALSE]
    /\ frame' = NoFrame
    /\ pc' = "idle"
    /\ clean' = FALSE
    /\ UNCHANGED <<debug, table, stepper, trace, rotor_angle, IA, IB, pins, ncalls, obj>>

Next ==
    \/ Construct
    \/ \E direction \in DIRECTIONS : AlignRotor(direction)
    \/ \E h \in TARGETS, direction \in DIRECTIONS, m \in SET_MICROSTEPS : SetRotor(h, direction, m)
    \/ \E r \in REVS, rpm \in RPMS, direction \in {"cw", "ccw"}, m \in MICROSTEPS :
           SpinRotor(r, rpm, direction, m)
    \/ \E s \in BAD_SPINS : SpinRotor(s[1], s[2], s[3], 1)
    \/ Microstep
    \/ NextMicrostep
    \/ NextSector
    \/ SpinDone
    \/ KeyboardInterrupt

Spec == Init /\ [][Next]_vars

(***************************************************************************)
(* A RotorAngle on its own: the class is used without a controller, with   *)
(* arguments of every kind.                                                *)
(***************************************************************************)

\* by how much the arguments go beyond the legal ranges
MaxBeyond == 2

ANGLE_SECTORS == (1 - MaxBeyond)..(SECTOR_COUNT + MaxBeyond)
ANGLE_TICKS   == (0 - MaxBeyond)..(SECTOR_TICKS - 1 + MaxBeyond)

\* obj = RotorAngle(sector, ticks)
NewRotorAngle(sector, ticks) ==
    /\ obj = NoObj
    /\ \E r \in {RotorAngle_init(debug, sector, ticks)} :
           obj' = [sector |-> sector, ticks |-> ticks, err |-> r.err, angle |-> r.angle]
    /\ UNCHANGED <<debug, table, stepper, trace, pc, rotor_angle, IA, IB, pins, frame, last, ncalls, clean>>

\* the integers given to is_power_of_2: negative, zero, and up to beyond
\* twice MAX_MICROSTEPS
POWER_INPUTS == (0 - MaxBeyond)..(2 * MAX_MICROSTEPS + MaxBeyond)

\* RotorAngle.is_power_of_2(n) called on its own; the value returned is
\* recorded in last.ret
IsPowerOf2(n) ==
    /\ obj = NoObj
    /\ last = NoLast
    /\ last' = [NoLast EXCEPT !.op = "is_power_of_2", !.arg = n, !.ret = is_power_of_2(n)]
    /\ UNCHANGED <<debug, table, stepper, trace, pc, rotor_angle, IA, IB, pins, frame, ncalls, clean, obj>>

AngleNext ==
    \/ last = NoLast /\ \E sector \in ANGLE_SECTORS, ticks \in ANGLE_TICKS :
                             NewRotorAngle(sector, ticks)
    \/ \E n \in POWER_INPUTS : IsPowerOf2(n)

AngleSpec == Init /\ [][AngleNext]_vars

(***************************************************************************)
(* The controller with its primitives called on their own, as its tests    *)
(* call them: _rotate_sectors and _rotate_in_sector, with the arguments    *)
(* the controller itself passes (a signed count of sectors, ticks of a     *)
(* sector), and align_rotor between them.                                  *)
(***************************************************************************)

\* bound of the count of sectors of _rotate_sectors
MaxSectors == 2

SECTOR_COUNTS == (0 - MaxSectors)..MaxSectors

\* num_microsteps of _rotate_sectors
PRIMITIVE_MICROSTEPS == {1, 2}

\* target_ticks of _rotate_in_sector: the boundary, inside the first half,
\* the midpoint, the last tick
PRIMITIVE_TICKS == {0, 5, SECTOR_TICKS \div 2, SECTOR_TICKS - 1}

RotateSectors(num_sectors, num_microsteps) ==
    /\ pc = "idle"
    /\ ncalls < MaxCalls
    /\ \E st \in {rotate_sectors(debug, Here, num_sectors, DELAY, num_microsteps)} :
           /\ rotor_angle' = st.angle
           /\ IA' = st.IA
           /\ IB' = st.IB
           /\ pins' = st.pins
           /\ last' = Returned("_rotate_sectors", "", num_microsteps, num_sectors, st)
           /\ clean' = (clean /\ st.err = "" /\ ValidMicrosteps(num_microsteps))
    /\ ncalls' = ncalls + 1
    /\ UNCHANGED <<debug, table, stepper, trace, pc, frame, obj>>

RotateInSector(target_ticks) ==
    /\ pc = "idle"
    /\ ncalls < MaxCalls
    /\ \E st \in {rotate_in_sector(debug, Here, target_ticks)} :
           /\ rotor_angle' = st.angle
           /\ IA' = st.IA
           /\ IB' = st.IB
           /\ pins' = st.pins
           /\ last' = Returned("_rotate_in_sector", "", 0, target_ticks, st)
           /\ clean' = (clean /\ st.err = "")
    /\ ncalls' = ncalls + 1
    /\ UNCHANGED <<debug, table, stepper, trace, pc, frame, obj>>

\* the phases of _energize_phase
PHASES == {"A", "B"}

\* the currents of _energize_phase: 1, cos 5, cos 45, 0.5, 0, the negative
\* value next to zero that math.cos gives for 270 degrees, -0.5, cos 135, -1
CURRENTS == {Plus1, UNITS \div 72, UNITS \div 8, UNITS \div 6, Zero, MinusZero,
             UNITS \div 3, (3 * UNITS) \div 8, Minus1}

\* _energize_phase called on its own; the phase is recorded in last.dir and
\* the current in last.arg
EnergizePhase(phase, I) ==
    /\ pc = "idle"
    /\ ncalls < MaxCalls
    /\ \E st \in {energize_phase(debug, Here, phase, I)} :
           /\ rotor_angle' = st.angle
           /\ IA' = st.IA
           /\ IB' = st.IB
           /\ pins' = st.pins
           /\ last' = Returned("_energize_phase", phase, 0, I, st)
    /\ clean' = FALSE
    /\ ncalls' = ncalls + 1
    /\ UNCHANGED <<debug, table, stepper, trace, pc, frame, obj>>

PrimitiveNext ==
    \/ Construct
    \/ \E direction \in DIRECTIONS : AlignRotor(direction)
    \/ \E n \in SECTOR_COUNTS, m \in PRIMITIVE_MICROSTEPS : RotateSectors(n, m)
    \/ \E t \in PRIMITIVE_TICKS : RotateInSector(t)
    \/ \E phase \in PHASES, I \in CURRENTS : EnergizePhase(phase, I)

PrimitiveSpec == Init /\ [][PrimitiveNext]_vars

(***************************************************************************)
(* A valid RotorAngle on its own, made by the constructor or by            *)
(* from_degrees, then moved sector by sector (one call of move_one_sector, *)
(* a call followed by the opposite call, SECTOR_COUNT calls clockwise) or  *)
(* taken to a sector boundary.                                             *)
(***************************************************************************)

\* move_one_sector(clockwise) called n times on the angle a (the calls are
\* split in two runs so that the evaluation stays shallow)
RECURSIVE move_sectors(_, _, _)
move_sectors(a, clockwise, n) ==
    IF n = 0 THEN a
    ELSE IF n = 1 THEN move_one_sector(a, clockwise)
    ELSE CHOOSE last_angle \in
             {move_sectors(first, clockwise, n - (n \div 2)) :
                  first \in {move_sectors(a, clockwise, n \div 2)}} : TRUE

PATHS == {"cw", "ccw", "cw_ccw", "ccw_cw", "cw_around"}

moved(a, path) ==
    CASE path = "cw"        -> move_one_sector(a, TRUE)
      [] path = "ccw"       -> move_one_sector(a, FALSE)
      [] path = "cw_ccw"    -> move_one_sector(move_one_sector(a, TRUE), FALSE)
      [] path = "ccw_cw"    -> move_one_sector(move_one_sector(a, FALSE), TRUE)
      [] path = "cw_around" -> move_sectors(a, TRUE, SECTOR_COUNT)

\* obj.move_one_sector(...) along a path, once per object
MoveSectors(path) ==
    /\ obj # NoObj
    /\ obj.err = ""
    /\ last = NoLast
    /\ obj' = [obj EXCEPT !.angle = moved(@, path)]
    /\ last' = [NoLast EXCEPT !.op = "move_one_sector", !.dir = path]
    /\ UNCHANGED <<debug, table, stepper, trace, pc, rotor_angle, IA, IB, pins, frame, ncalls, clean>>

\* the calls of rotate_to_sector_boundary: one call, or a call followed by a
\* second call
BOUNDARY_PATHS == {"cw", "ccw", "cw_cw", "cw_ccw", "ccw_cw", "ccw_ccw"}

to_boundary(a, path) ==
    CASE path = "cw"      -> rotate_to_sector_boundary(a, TRUE)
      [] path = "ccw"     -> rotate_to_sector_boundary(a, FALSE)
      [] path = "cw_cw"   -> rotate_to_sector_boundary(rotate_to_sector_boundary(a, TRUE), TRUE)
      [] path = "cw_ccw"  -> rotate_to_sector_boundary(rotate_to_sector_boundary(a, TRUE), FALSE)
      [] path = "ccw_cw"  -> rotate_to_sector_boundary(rotate_to_sector_boundary(a, FALSE), TRUE)
      [] path = "ccw_ccw" -> rotate_to_sector_boundary(rotate_to_sector_boundary(a, FALSE), FALSE)

\* obj.rotate_to_sector_boundary(...) along a path, once per object
RotateToSectorBoundary(path) ==
    /\ obj # NoObj
    /\ obj.err = ""
    /\ last = NoLast
    /\ obj' = [obj EXCEPT !.angle = to_boundary(@, path)]
    /\ last' = [NoLast EXCEPT !.op = "rotate_to_sector_boundary", !.dir = path]
    /\ UNCHANGED <<debug, table, stepper, trace, pc, rotor_angle, IA, IB, pins, frame, ncalls, clean>>

\* the angles given to from_degrees, in half ticks: every half tick of the
\* first turn, and whole ticks of the turn before and of the turn after
DEGREES ==
    (0..(2 * TOTAL_TICKS - 1))
        \cup {h - 2 * TOTAL_TICKS : h \in {0, SECTOR_TICKS, 2 * TOTAL_TICKS - 2}}
        \cup {h + 2 * TOTAL_TICKS : h \in {0, SECTOR_TICKS, 2 * SECTOR_TICKS}}

\* obj = RotorAngle.from_degrees(h / HALF_TICKS_PER_DEGREE)
FromDegrees(h) ==
    /\ obj = NoObj
    /\ \E r \in {from_degrees(debug, h)} :
           obj' = [sector |-> r.angle.sector, ticks |-> r.angle.ticks,
                   err |-> r.err, angle |-> r.angle]
    /\ last' = [NoLast EXCEPT !.op = "from_degrees", !.arg = h]
    /\ UNCHANGED <<debug, table, stepper, trace, pc, rotor_angle, IA, IB, pins, frame, ncalls, clean>>

MoveNext ==
    \/ obj = NoObj /\ \E sector \in 1..SECTOR_COUNT, ticks \in 0..(SECTOR_TICKS - 1) :
                          NewRotorAngle(sector, ticks)
    \/ obj = NoObj /\ \E h \in DEGREES : FromDegrees(h)
    \/ \E path \in PATHS : MoveSectors(path)
    \/ \E path \in BOUNDARY_PATHS : RotateToSectorBoundary(path)

MoveSpec == Init /\ [][MoveNext]_vars

(***************************************************************************)
(* calculate_electric_cycle called on its own, with a count of microsteps  *)
(* and a current_calculator of the caller, and run pass by pass.           *)
(***************************************************************************)

\* bound of the num_microsteps a table is built with, next to the
\* MAX_MICROSTEPS of the controller
MaxTable == 4

TABLE_MICROSTEPS == (1..MaxTable) \cup {MAX_MICROSTEPS}

\* calculate_electric_cycle(num_microsteps, current_calculator) up to its loop
CalculateElectricCycle(num_microsteps, strategy) ==
    /\ table = NoTable
    /\ table' = [NoTable EXCEPT !.num_microsteps = num_microsteps,
                                !.strategy = strategy,
                                !.at = "loop"]
    /\ UNCHANGED <<debug, stepper, trace, pc, rotor_angle, IA, IB, pins, frame, last, ncalls,
                   clean, obj>>

\* one pass of the for loop
CycleStage ==
    /\ table.at = "loop"
    /\ table.n < 4 * table.num_microsteps
    /\ table' = cycle_stage(table)
    /\ UNCHANGED <<debug, stepper, trace, pc, rotor_angle, IA, IB, pins, frame, last, ncalls,
                   clean, obj>>

\* the loop is over: the list is returned
CycleReturn ==
    /\ table.at = "loop"
    /\ ~(table.n < 4 * table.num_microsteps)
    /\ table' = [table EXCEPT !.at = "returned"]
    /\ UNCHANGED <<debug, stepper, trace, pc, rotor_angle, IA, IB, pins, frame, last, ncalls,
                   clean, obj>>

CycleNext ==
    \/ \E num_microsteps \in TABLE_MICROSTEPS, strategy \in STRATEGIES :
           CalculateElectricCycle(num_microsteps, strategy)
    \/ CycleStage
    \/ CycleReturn

CycleSpec == Init /\ [][CycleNext]_vars

(***************************************************************************)
(* calculate_currents_geometric (src/src/electrical_cycle.py) called on    *)
(* its own.  Its doubles are modelled in ten-thousandths: a current of     *)
(* 1.0 is ONE.  The cycle positions are the multiples of                   *)
(* 1 / (4 * QUARTER_STEPS), exact doubles, for which theta is              *)
(* k * pi / (4 * QUARTER_STEPS), k in 0..QUARTER_STEPS-1; math.cos and     *)
(* math.sin of these are tabulated.                                        *)
(***************************************************************************)

ONE == 10000

\* the cycle positions of a quarter of the cycle
QUARTER_STEPS == 32

\* math.sqrt(2), in ten-thousandths
SQRT2 == 14142

\* math.cos(k * pi / (4 * QUARTER_STEPS)) for k = 0..QUARTER_STEPS-1 (element
\* k + 1), in ten-thousandths
COS_TABLE == <<
    10000, 9997, 9988, 9973, 9952, 9925, 9892, 9853, 9808, 9757, 9700,
    9638, 9569, 9495, 9415, 9330, 9239, 9142, 9040, 8932, 8819, 8701, 8577,
    8449, 8315, 8176, 8032, 7883, 7730, 7572, 7410, 7242 >>

\* math.sin(k * pi / (4 * QUARTER_STEPS)) for k = 0..QUARTER_STEPS-1 (element
\* k + 1), in ten-thousandths
SIN_TABLE == <<
    0, 245, 491, 736, 980, 1224, 1467, 1710, 1951, 2191, 2430, 2667, 2903,
    3137, 3369, 3599, 3827, 4052, 4276, 4496, 4714, 4929, 5141, 5350, 5556,
    5758, 5957, 6152, 6344, 6532, 6716, 6895 >>

\* a product of two numbers in ten-thousandths, rounded to the nearest ten-thousandth
FixedTimes(a, b) == (a * b + (ONE \div 2)) \div ONE

\* calculate_currents_geometric(n / (4 * QUARTER_STEPS)): the pair (Ia, Ib)
calculate_currents_geometric(n) ==
    LET quarter == (n \div QUARTER_STEPS) + 1
        k       == n % QUARTER_STEPS
        B_ccw   == COS_TABLE[k + 1] - SIN_TABLE[k + 1]
        B_cw    == FixedTimes(SQRT2, SIN_TABLE[k + 1])
    IN  CASE quarter = 1 -> <<B_ccw, B_cw>>
          [] quarter = 2 -> <<-B_cw, B_ccw>>
          [] quarter = 3 -> <<-B_ccw, -B_cw>>
          [] quarter = 4 -> <<B_cw, -B_ccw>>

\* the cycle positions given to calculate_currents_geometric: [0, 1)
CYCLE_POSITIONS == 0..(4 * QUARTER_STEPS - 1)

\* calculate_currents_geometric(n / (4 * QUARTER_STEPS)) called on its own;
\* the pair returned is recorded as the one entry of table.electric_cycle
CalculateCurrentsGeometric(n) ==
    /\ table = NoTable
    /\ table' = [NoTable EXCEPT !.strategy = "geometric",
                                !.n = n,
                                !.at = "returned",
                                !.electric_cycle = <<calculate_currents_geometric(n)>>]
    /\ UNCHANGED <<debug, stepper, trace, pc, rotor_angle, IA, IB, pins, frame, last, ncalls,
                   clean, obj>>

GeometricNext == \E n \in CYCLE_POSITIONS : CalculateCurrentsGeometric(n)

GeometricSpec == Init /\ [][GeometricNext]_vars

(***************************************************************************)
(* A MicrostepMotor and a StepperMotor side by side: both are constructed, *)
(* then every call is made on both with the same arguments (set_rotor on   *)
(* the one is turn_rotor on the other).  Each call runs to its end; of     *)
(* each the commands given to _energize_phase and the durations given to   *)
(* time.sleep are kept, in order.                                          *)
(***************************************************************************)

\* no call gives more commands than this
KEEP_ALL == 2 * MAX_MICROSTEPS * SECTOR_COUNT + 2

PAIR_RPMS == {60, -60}

PAIR_MICROSTEPS == {1, 2, MAX_MICROSTEPS}

PairHere == [Here EXCEPT !.keep = KEEP_ALL]

StepperHere == [angle |-> stepper.angle, IA |-> stepper.IA, IB |-> stepper.IB,
                pins |-> stepper.pins, writes |-> 0, phases |-> <<>>, waits |-> 0,
                err |-> "", sectors |-> 0, keep |-> KEEP_ALL, commands |-> <<>>,
                sleeps |-> <<>>, path |-> <<>>]

Ended(st) == [angle |-> st.angle, IA |-> st.IA, IB |-> st.IB, pins |-> st.pins,
              err |-> st.err, commands |-> st.commands, sleeps |-> st.sleeps,
              sectors |-> st.sectors, path |-> st.path]

Traced(st) == [commands |-> st.commands, sleeps |-> st.sleeps, sectors |-> st.sectors,
               path |-> st.path]

\* MicrostepMotor.__init__ and StepperMotor.__init__: the two assertions,
\* the two phases energized, the RotorAngle made
controller_init(dbg, st) ==
    IF dbg /\ ~(is_power_of_2(MAX_MICROSTEPS) /\ MAX_MICROSTEPS <= SECTOR_TICKS)
        THEN Raise(st, "AssertionError")
    ELSE LET a == energize_phase(dbg, st, "A", Plus1)
             b == energize_phase(dbg, a, "B", Zero)
             r == RotorAngle_init(dbg, 1, 0)
         IN  [Raise(b, r.err) EXCEPT !.angle = r.angle]

PairConstruct ==
    /\ pc = "new"
    /\ \E own \in {controller_init(debug, PairHere)},
          other \in {controller_init(debug, StepperHere)} :
           /\ rotor_angle' = own.angle
           /\ IA' = own.IA
           /\ IB' = own.IB
           /\ pins' = own.pins
           /\ pc' = IF own.err = "" /\ other.err = "" THEN "idle" ELSE "failed"
           /\ last' = Returned("__init__", "", 0, 0, own)
           /\ trace' = Traced(own)
           /\ stepper' = Ended(other)
    /\ UNCHANGED <<debug, table, frame, ncalls, clean, obj>>

\* align_rotor(direction) on both
PairAlign(direction) ==
    /\ pc = "idle"
    /\ ncalls < MaxCalls
    /\ \E own \in {align_rotor(debug, PairHere, direction)},
          other \in {StepperMotor_align_rotor(debug, StepperHere, direction)} :
           /\ rotor_angle' = own.angle
           /\ IA' = own.IA
           /\ IB' = own.IB
           /\ pins' = own.pins
           /\ last' = Returned("align_rotor", direction, 0, 0, own)
           /\ trace' = Traced(own)
           /\ stepper' = Ended(other)
           /\ clean' = (clean /\ own.err = "")
    /\ ncalls' = ncalls + 1
    /\ UNCHANGED <<debug, table, pc, frame, obj>>

\* set_rotor(h, direction, num_microsteps) on the MicrostepMotor and
\* turn_rotor(h, direction, num_microsteps) on the StepperMotor
PairSeek(h, direction, num_microsteps) ==
    /\ pc = "idle"
    /\ ncalls < MaxCalls
    /\ \E own \in {set_rotor(debug, PairHere, h, direction, num_microsteps)},
          other \in {StepperMotor_turn_rotor(debug, StepperHere, h, direction,
                                             num_microsteps)} :
           /\ rotor_angle' = own.angle
           /\ IA' = own.IA
           /\ IB' = own.IB
           /\ pins' = own.pins
           /\ last' = Returned("set_rotor", direction, num_microsteps, h, own)
           /\ trace' = Traced(own)
           /\ stepper' = Ended(other)
           /\ clean' = (clean /\ own.err = "" /\ ValidMicrosteps(num_microsteps))
    /\ ncalls' = ncalls + 1
    /\ UNCHANGED <<debug, table, pc, frame, obj>>

\* spin_rotor(r, rpm, direction, num_microsteps) on both
PairSpin(r, rpm, direction, num_microsteps) ==
    /\ pc = "idle"
    /\ ncalls < MaxCalls
    /\ \E own \in {spin_rotor(debug, PairHere, r, rpm, direction, num_microsteps)},
          other \in {StepperMotor_spin_rotor(debug, StepperHere, r, rpm, direction,
                                             num_microsteps)} :
           /\ rotor_angle' = own.angle
           /\ IA' = own.IA
           /\ IB' = own.IB
           /\ pins' = own.pins
           /\ last' = [Returned("spin_rotor", direction, num_microsteps, r, own)
                         EXCEPT !.rpm = rpm]
           /\ trace' = Traced(own)
           /\ stepper' = Ended(other)
           /\ clean' = (clean /\ own.err = "" /\ ValidMicrosteps(num_microsteps))
    /\ ncalls' = ncalls + 1
    /\ UNCHANGED <<debug, table, pc, frame, obj>>

\* the revolutions of a spin, in half sectors: those of REVS and a negative
\* count, which without the assertions is two sectors counter-clockwise
PAIR_REVS == REVS \cup {-4}

PairNext ==
    \/ PairConstruct
    \/ \E direction \in DIRECTIONS : PairAlign(direction)
    \/ \E h \in TARGETS, direction \in DIRECTIONS, m \in SET_MICROSTEPS :
           PairSeek(h, direction, m)
    \/ \E r \in PAIR_REVS, rpm \in PAIR_RPMS, direction \in {"cw", "ccw"},
          m \in PAIR_MICROSTEPS : PairSpin(r, rpm, direction, m)

PairSpec == Init /\ [][PairNext]_vars

(***************************************************************************)
(* Properties                                                              *)
(***************************************************************************)

\* the pair of currents of the electrical position of the angle a: position
\* ((sector-1) mod 4)*SECTOR_TICKS + ticks in a cycle of 4*SECTOR_TICKS
ElectricalPair(a) ==
    LET position == ((a.sector - 1) % 4) * SECTOR_TICKS + a.ticks
    IN  <<Cos(position * MAX_MICROSTEPS), Sin(position * MAX_MICROSTEPS)>>

\* a step that is one whole call of align_rotor
AlignStep ==
    /\ pc = "idle"
    /\ pc' = "idle"
    /\ ncalls' = ncalls + 1
    /\ last'.op = "align_rotor"

\* a step that is a call of spin_rotor or set_rotor, up to its return or up
\* to its first microstep
CallStep ==
    /\ pc = "idle"
    /\ ncalls' = ncalls + 1
    /\ (pc' = "microstep" \/ last'.op \in {"spin_rotor", "set_rotor"})

\* the num_microsteps of the call of a CallStep
CallMicrosteps == IF pc' = "microstep" THEN frame'.num_microsteps ELSE last'.m

\* C1: between two calls, when every call so far returned normally, the
\* currents last commanded to the phases A and B are the pair of the
\* electrical position of the rotor angle (so (1,0), (0,1), (-1,0), (0,-1)
\* at the aligned positions 1..4).
C1_CurrentsMatchAngle ==
    (pc = "idle" /\ clean) => <<IA, IB>> = ElectricalPair(rotor_angle)

\* C2: when set_rotor(target, direction, num_microsteps) has returned
\* normally, the rotor angle is RotorAngle.from_degrees(target), sector and
\* ticks.
C2_SetRotorReachesTarget ==
    (pc = "idle" /\ last.op = "set_rotor" /\ last.err = "" /\ ValidMicrosteps(last.m))
        => rotor_angle = from_degrees(debug, last.arg).angle

\* C3: a finite spin_rotor that returns has moved the rotor angle from the
\* aligned sector s by N = round(revolutions * 200) sectors in the requested
\* direction: to ((s-1+N) mod 200)+1 for cw, ((s-1-N) mod 200)+1 for ccw,
\* with ticks 0.
C3_SpinMovesRequestedWay ==
    [][(pc = "sleep" /\ pc' = "idle" /\ last'.err = "" /\ ValidMicrosteps(frame.num_microsteps))
        => LET N == PyRound(frame.arg * SECTOR_COUNT, 2 * SECTOR_COUNT)
               s == frame.aligned_sector
           IN  rotor_angle' =
                   [sector |-> IF frame.asked = "cw"
                                   THEN ((s - 1 + N) % SECTOR_COUNT) + 1
                                   ELSE ((s - 1 - N) % SECTOR_COUNT) + 1,
                    ticks  |-> 0]]_vars

\* C4: a call of spin_rotor or set_rotor whose num_microsteps is not a power
\* of two or exceeds MAX_MICROSTEPS ends with an error, with no phase
\* energized and the rotor angle unchanged.
C4_BadMicrostepsRejected ==
    [][(CallStep /\ ~ValidMicrosteps(CallMicrosteps))
        => /\ pc' = "idle"
           /\ last'.err # ""
           /\ last'.writes = 0
           /\ rotor_angle' = rotor_angle
           /\ IA' = IA
           /\ IB' = IB]_vars

\* C5: RotorAngle(sector, ticks) succeeds exactly when 1 <= sector <=
\* SECTOR_COUNT and 0 <= ticks < SECTOR_TICKS; when it succeeds the angle
\* holds that pair, otherwise an error is raised.
C5_ConstructIffInRange ==
    obj # NoObj =>
        LET in_range == /\ 1 <= obj.sector /\ obj.sector <= SECTOR_COUNT
                        /\ 0 <= obj.ticks /\ obj.ticks < SECTOR_TICKS
        IN  IF in_range
                THEN obj.err = "" /\ obj.angle = [sector |-> obj.sector, ticks |-> obj.ticks]
                ELSE obj.err # ""

\* C6: once the constructor of the controller has run, the controller
\* exists, its rotor angle is (1, 0), aligned at position 1, phase A is
\* commanded to +1 and phase B to 0.
C6_ConstructedAligned ==
    last.op = "__init__" =>
        /\ pc = "idle"
        /\ last.err = ""
        /\ rotor_angle = [sector |-> 1, ticks |-> 0]
        /\ is_aligned(rotor_angle)
        /\ aligned_position(rotor_angle) = 1
        /\ IA = Plus1
        /\ IB = Zero

\* C7: align_rotor called with an aligned rotor changes nothing, whatever
\* the direction: no phase is energized and the rotor angle is unchanged.
C7_AlignedIsNoOp ==
    [][(AlignStep /\ is_aligned(rotor_angle))
        => /\ last'.err = ""
           /\ last'.writes = 0
           /\ rotor_angle' = rotor_angle
           /\ IA' = IA
           /\ IB' = IB]_vars

\* an aligned rotor on which align_rotor("closest") has just returned
C7_Witness ==
    /\ pc = "idle"
    /\ last.op = "align_rotor"
    /\ last.dir = "closest"
    /\ last.writes = 0
    /\ ncalls = 2
    /\ rotor_angle = [sector |-> 2, ticks |-> 0]
    /\ IA = Zero
    /\ IB = Plus1

\* C8: align_rotor from the unaligned angle (s, t) ends at ((s mod 200)+1, 0)
\* for cw, at (s, 0) for ccw, and for closest at (s, 0) when t is below half
\* of SECTOR_TICKS and at ((s mod 200)+1, 0) otherwise, which is a boundary
\* at the least distance in ticks.
C8_AlignTarget ==
    [][(AlignStep /\ ~is_aligned(rotor_angle))
        => LET s   == rotor_angle.sector
               t   == rotor_angle.ticks
               cw  == [sector |-> (s % SECTOR_COUNT) + 1, ticks |-> 0]
               ccw == [sector |-> s, ticks |-> 0]
               dir == last'.dir
           IN  /\ last'.err = ""
               /\ dir = "cw"  => rotor_angle' = cw
               /\ dir = "ccw" => rotor_angle' = ccw
               /\ dir = "closest" =>
                      /\ rotor_angle' = IF 2 * t < SECTOR_TICKS THEN ccw ELSE cw
                      /\ (IF rotor_angle' = ccw THEN t ELSE SECTOR_TICKS - t)
                             = Min(t, SECTOR_TICKS - t)]_vars

\* align_rotor("closest") has moved the rotor from the midpoint of sector 1
\* (where both phases carried cos(pi/4)) to the boundary of sector 2
C8_Witness ==
    /\ pc = "idle"
    /\ last.op = "align_rotor"
    /\ last.dir = "closest"
    /\ rotor_angle = [sector |-> 2, ticks |-> 0]
    /\ IA = Cos(UNITS \div 8)
    /\ IB = Plus1

\* C9: align_rotor moving an unaligned rotor energizes exactly one phase,
\* as entry aligned_position-1 of [(A,+1), (B,+1), (A,-1), (B,-1)] says for
\* the aligned position of the angle after the move; the other phase is not
\* commanded.
C9_AlignEnergizesEntry ==
    [][(AlignStep /\ ~is_aligned(rotor_angle))
        => LET action == align_actions[aligned_position(rotor_angle')]
           IN  /\ last'.writes = 1
               /\ aligned_position(rotor_angle') \in 1..4
               /\ IF action[1] = "A"
                     THEN IA' = action[2] /\ IB' = IB
                     ELSE IB' = action[2] /\ IA' = IA]_vars

\* align_rotor("cw") has moved the rotor from inside sector 200 over the
\* wrap to sector 1 and energized phase A with +1
C9_Witness ==
    /\ pc = "idle"
    /\ last.op = "align_rotor"
    /\ last.dir = "cw"
    /\ last.writes = 1
    /\ rotor_angle = [sector |-> 1, ticks |-> 0]
    /\ IA = Plus1
    /\ IB # Zero

\* C10: a spin that is stopped from outside stops at a sector boundary:
\* where it has stopped, the rotor angle is aligned and the currents last
\* commanded are the pair of that angle.
C10_StopsAtSectorBoundary ==
    (pc = "idle" /\ last.op = "spin_rotor" /\ last.err = "KeyboardInterrupt")
        => /\ is_aligned(rotor_angle)
           /\ <<IA, IB>> = ElectricalPair(rotor_angle)

\* C11: spin_rotor with num_revolutions = infinity is accepted and never
\* returns on its own: it is left only by a stop from outside.
C11_InfiniteSpinAccepted ==
    (pc = "idle" /\ last.op = "spin_rotor" /\ last.arg = INF)
        => last.err = "KeyboardInterrupt"

\* C12: set_rotor with direction closest and a target in another sector
\* turns clockwise exactly when the clockwise distance from the current
\* angle to the quantized target is at most the counter-clockwise one (half
\* a turn goes clockwise): the call does what set_rotor with that direction
\* does.
C12_ClosestDirection ==
    [][(/\ pc = "idle" /\ pc' = "idle" /\ ncalls' = ncalls + 1
        /\ last'.op = "set_rotor" /\ last'.dir = "closest" /\ last'.err = ""
        /\ from_degrees(debug, last'.arg).angle.sector # rotor_angle.sector)
        => LET target    == from_degrees(debug, last'.arg).angle
               cw_ticks  == (to_degrees(target) - to_degrees(rotor_angle)) % TOTAL_TICKS
               ccw_ticks == (to_degrees(rotor_angle) - to_degrees(target)) % TOTAL_TICKS
               dir       == IF cw_ticks <= ccw_ticks THEN "cw" ELSE "ccw"
               st        == set_rotor(debug, Here, last'.arg, dir, last'.m)
           IN  /\ rotor_angle' = st.angle
               /\ IA' = st.IA
               /\ IB' = st.IB]_vars

\* a step that is one whole call of set_rotor
SetStep ==
    /\ pc = "idle"
    /\ pc' = "idle"
    /\ ncalls' = ncalls + 1
    /\ last'.op = "set_rotor"

\* C13: set_rotor with a target that quantizes to the current rotor angle
\* changes nothing, whatever the direction: no phase is energized and the
\* rotor angle is unchanged.
C13_SameAngleIsNoOp ==
    [][(SetStep /\ from_degrees(debug, last'.arg).err = ""
                /\ from_degrees(debug, last'.arg).angle = rotor_angle)
        => /\ last'.err = ""
           /\ last'.writes = 0
           /\ last'.waits = 0
           /\ rotor_angle' = rotor_angle
           /\ IA' = IA
           /\ IB' = IB]_vars

\* set_rotor(0.9) has returned, without a write, on a rotor that was at the
\* middle of sector 1, the angle whose to_degrees is 0.9
C13_Witness ==
    /\ pc = "idle"
    /\ ncalls = 2
    /\ last.op = "set_rotor"
    /\ last.arg = 2 * to_degrees(rotor_angle)
    /\ last.err = ""
    /\ last.writes = 0
    /\ rotor_angle = [sector |-> 1, ticks |-> 9]

\* C14: set_rotor with a target in the current sector at other ticks only
\* positions the rotor in the sector: phase A and then phase B are energized
\* once each, nothing else is, no wait occurs, and the rotor angle becomes
\* the target with its sector unchanged.
C14_SameSectorOnlyPositions ==
    [][(SetStep /\ from_degrees(debug, last'.arg).err = ""
                /\ from_degrees(debug, last'.arg).angle.sector = rotor_angle.sector
                /\ from_degrees(debug, last'.arg).angle.ticks # rotor_angle.ticks)
        => /\ last'.err = ""
           /\ last'.phases = <<"A", "B">>
           /\ last'.writes = 2
           /\ last'.waits = 0
           /\ rotor_angle'.sector = rotor_angle.sector
           /\ rotor_angle' = from_degrees(debug, last'.arg).angle]_vars

\* set_rotor(0.0, "cw") has brought the rotor from the middle of sector 1
\* back to the start of sector 1 with two writes
C14_Witness ==
    /\ pc = "idle"
    /\ ncalls = 2
    /\ last.op = "set_rotor"
    /\ last.arg = 0
    /\ last.dir = "cw"
    /\ last.phases = <<"A", "B">>
    /\ rotor_angle = [sector |-> 1, ticks |-> 0]
    /\ IA = Plus1
    /\ IB = Zero

\* a step that is one whole call of a primitive
PrimitiveStep(op) ==
    /\ pc = "idle"
    /\ pc' = "idle"
    /\ ncalls' = ncalls + 1
    /\ last'.op = op

\* C15: _rotate_sectors from an aligned rotor at sector s with the count n
\* and m microsteps: for n = 0 nothing is energized, no wait occurs and the
\* angle is unchanged; otherwise it returns with the rotor aligned at sector
\* ((s - 1 + n) mod 200) + 1 after |n| * m waits.
C15_RotateSectors ==
    [][(PrimitiveStep("_rotate_sectors") /\ is_aligned(rotor_angle)
            /\ ValidMicrosteps(last'.m))
        => LET n == last'.arg
               s == rotor_angle.sector
           IN  /\ last'.err = ""
               /\ last'.waits = Abs(n) * last'.m
               /\ rotor_angle' = [sector |-> ((s - 1 + n) % SECTOR_COUNT) + 1, ticks |-> 0]
               /\ n = 0 => (last'.writes = 0 /\ IA' = IA /\ IB' = IB)]_vars

\* _rotate_sectors(-2, 2) has returned after four waits with the rotor two
\* sectors counter-clockwise of sector 1, over the wrap
C15_Witness ==
    /\ pc = "idle"
    /\ ncalls = 1
    /\ last.op = "_rotate_sectors"
    /\ last.arg = -2
    /\ last.m = 2
    /\ last.waits = 4
    /\ rotor_angle = [sector |-> SECTOR_COUNT - 1, ticks |-> 0]

\* C16: _rotate_in_sector(target_ticks) changes nothing and energizes
\* nothing when target_ticks is the current ticks; otherwise it energizes
\* phase A, then phase B, nothing else, and leaves the rotor angle at
\* (current sector, target_ticks).
C16_RotateInSector ==
    [][PrimitiveStep("_rotate_in_sector")
        => /\ last'.err = ""
           /\ last'.waits = 0
           /\ IF last'.arg = rotor_angle.ticks
                 THEN /\ last'.writes = 0
                      /\ rotor_angle' = rotor_angle
                      /\ IA' = IA
                      /\ IB' = IB
                 ELSE /\ last'.writes = 2
                      /\ last'.phases = <<"A", "B">>
                      /\ rotor_angle' = [sector |-> rotor_angle.sector,
                                         ticks  |-> last'.arg]]_vars

\* _rotate_in_sector(5) has returned on a rotor that was already at ticks 5
C16_Witness ==
    /\ pc = "idle"
    /\ ncalls = 2
    /\ last.op = "_rotate_in_sector"
    /\ last.arg = 5
    /\ last.writes = 0
    /\ rotor_angle.ticks = 5

\* C17: while the controller exists its rotor angle has 1 <= sector <= 200
\* and 0 <= ticks < SECTOR_TICKS.
C17_AngleInRange ==
    pc \notin {"new", "failed"}
        => /\ 1 <= rotor_angle.sector
           /\ rotor_angle.sector <= SECTOR_COUNT
           /\ 0 <= rotor_angle.ticks
           /\ rotor_angle.ticks < SECTOR_TICKS

\* align_rotor("cw") has taken the rotor from the last tick of sector 200
\* over the wrap to sector 1
C17_Witness ==
    /\ pc = "idle"
    /\ ncalls = 2
    /\ last.op = "align_rotor"
    /\ last.dir = "cw"
    /\ last.phases = <<"A">>
    /\ rotor_angle = [sector |-> 1, ticks |-> 0]
    /\ IB = Sin(((4 * SECTOR_TICKS) - 1) * MAX_MICROSTEPS)

\* C18: the SECTOR_TICKS the classes are loaded with is a power of two, so
\* every legal microstep count (a power of two up to MAX_MICROSTEPS) divides
\* it and SECTOR_TICKS / 2 is the exact midpoint of a sector.
C18_SectorTicksPowerOfTwo ==
    pc # "new"
        => /\ \E k \in 0..16 : SECTOR_TICKS = 2 ^ k
           /\ \A m \in 1..MAX_MICROSTEPS : ValidMicrosteps(m) => SECTOR_TICKS % m = 0
           /\ 2 * (SECTOR_TICKS \div 2) = SECTOR_TICKS

\* C19: move_one_sector on a valid angle (s, t) leaves t unchanged and
\* takes s to (s mod 200) + 1 clockwise (200 to 1) and to ((s - 2) mod 200)
\* + 1 counter-clockwise (1 to 200).
C19_MoveOneSector ==
    (last.op = "move_one_sector" /\ last.dir \in {"cw", "ccw"})
        => /\ obj.angle.ticks = obj.ticks
           /\ last.dir = "cw"  => obj.angle.sector = (obj.sector % 200) + 1
           /\ last.dir = "ccw" => obj.angle.sector = ((obj.sector - 2) % 200) + 1
           /\ (last.dir = "cw" /\ obj.sector = 200) => obj.angle.sector = 1
           /\ (last.dir = "ccw" /\ obj.sector = 1) => obj.angle.sector = 200

\* the angle made as (1, 17) has been moved counter-clockwise to sector 200
C19_Witness ==
    /\ last.op = "move_one_sector"
    /\ last.dir = "ccw"
    /\ obj.sector = 1
    /\ obj.ticks = SECTOR_TICKS - 1
    /\ obj.angle = [sector |-> 200, ticks |-> SECTOR_TICKS - 1]

\* C20: from a valid (sector, ticks), move_one_sector 200 times clockwise
\* ends in the same sector, and one move followed by the opposite move ends
\* at the same (sector, ticks).
C20_MoveRoundTrips ==
    (last.op = "move_one_sector" /\ last.dir \in {"cw_ccw", "ccw_cw", "cw_around"})
        => /\ obj.angle.sector = obj.sector
           /\ last.dir \in {"cw_ccw", "ccw_cw"} => obj.angle.ticks = obj.ticks

\* the angle made as (200, 9) has been moved clockwise over the wrap and
\* back
C20_Witness ==
    /\ last.op = "move_one_sector"
    /\ last.dir = "cw_ccw"
    /\ obj.sector = 200
    /\ obj.ticks = 9
    /\ obj.angle = [sector |-> 200, ticks |-> 9]

\* C21: rotate_to_sector_boundary on a valid angle (s, t): with t = 0 the
\* angle is unchanged for either direction; with t > 0 the ticks become 0 and
\* the sector becomes (s mod 200) + 1 clockwise and stays s otherwise; a
\* second call, in either direction, changes nothing more.
C21_RotateToSectorBoundary ==
    last.op = "rotate_to_sector_boundary"
        => LET s     == obj.sector
               t     == obj.ticks
               first == IF last.dir \in {"cw", "cw_cw", "cw_ccw"} THEN "cw" ELSE "ccw"
           IN  IF t = 0
                   THEN obj.angle = [sector |-> s, ticks |-> 0]
                   ELSE /\ obj.angle.ticks = 0
                        /\ first = "cw"  => obj.angle.sector = (s % 200) + 1
                        /\ first = "ccw" => obj.angle.sector = s

\* the angle made as (200, 9) has been taken clockwise over the wrap to the
\* boundary (1, 0), and a second clockwise call has left it there
C21_Witness ==
    /\ last.op = "rotate_to_sector_boundary"
    /\ last.dir = "cw_cw"
    /\ obj.sector = 200
    /\ obj.ticks = 9
    /\ obj.angle = [sector |-> 1, ticks |-> 0]

\* the entry of index n of the list of the table (0 based, as in the code)
TableEntry(n) == table.electric_cycle[n + 1]

\* C22: whatever the count N >= 1 of microsteps and whatever the
\* current_calculator returns, the table calculate_electric_cycle builds has
\* (1, 0) at index 0, (0, 1) at index N, (-1, 0) at index 2N and (0, -1) at
\* index 3N, and the current_calculator is never called for these indices.
C22_CardinalEntriesHardCoded ==
    table.num_microsteps >= 1
        => LET N == table.num_microsteps
           IN  /\ Len(table.electric_cycle) > 0     => TableEntry(0) = <<Plus1, Zero>>
               /\ Len(table.electric_cycle) > N     => TableEntry(N) = <<Zero, Plus1>>
               /\ Len(table.electric_cycle) > 2 * N => TableEntry(2 * N) = <<Minus1, Zero>>
               /\ Len(table.electric_cycle) > 3 * N => TableEntry(3 * N) = <<Zero, Minus1>>
               /\ \A c \in 1..Len(table.calls) :
                      table.calls[c] \notin {0, N, 2 * N, 3 * N}
               /\ table.at = "returned" => Len(table.electric_cycle) > 3 * N

\* the table of 3 microsteps built with the calculator that swaps the
\* sinusoidal pair has been returned with its four hard-coded entries
C22_Witness ==
    /\ table.at = "returned"
    /\ table.strategy = "swapped"
    /\ table.num_microsteps = 3
    /\ TableEntry(3) = <<Zero, Plus1>>
    /\ TableEntry(9) = <<Zero, Minus1>>
    /\ Len(table.calls) = 8

\* C23: the table calculate_electric_cycle(N, current_calculator) returns
\* has exactly 4N entries, and its entry at every index n other than 0, N,
\* 2N and 3N is what the current_calculator returns for the position n / 4N.
C23_TableLengthAndEntries ==
    table.at = "returned"
        => LET N == table.num_microsteps
           IN  /\ Len(table.electric_cycle) = 4 * N
               /\ \A n \in 0..(4 * N - 1) :
                      n \notin {0, N, 2 * N, 3 * N}
                          => TableEntry(n) = current_calculator(table.strategy, n, 4 * N)

\* the sinusoidal table of MAX_MICROSTEPS microsteps has been returned, with
\* cos and sin of an eighth of a turn at index MAX_MICROSTEPS / 2
C23_Witness ==
    /\ table.at = "returned"
    /\ table.strategy = "sinusoidal"
    /\ table.num_microsteps = MAX_MICROSTEPS
    /\ Len(table.electric_cycle) = 4 * MAX_MICROSTEPS
    /\ TableEntry(MAX_MICROSTEPS \div 2) = <<Cos(UNITS \div 8), Cos(UNITS \div 8)>>

\* C24: from_degrees of an angle that is a whole number of ticks, T ticks
\* after the reduction modulo 360 degrees, returns the angle of sector
\* (T div SECTOR_TICKS) + 1 and ticks T mod SECTOR_TICKS; 1.8 degrees gives
\* (2, 0), 0.9 degrees gives (1, SECTOR_TICKS / 2), and an angle that rounds
\* up to TOTAL_TICKS gives (1, 0).
C24_FromDegreesSplitsTicks ==
    (last.op = "from_degrees" /\ obj.err = "")
        => LET h == last.arg
               T == (h % (2 * TOTAL_TICKS)) \div 2
           IN  /\ h % 2 = 0 =>
                      obj.angle = [sector |-> (T \div SECTOR_TICKS) + 1,
                                   ticks  |-> T % SECTOR_TICKS]
               /\ h = 2 * SECTOR_TICKS => obj.angle = [sector |-> 2, ticks |-> 0]
               /\ h = SECTOR_TICKS => obj.angle = [sector |-> 1, ticks |-> SECTOR_TICKS \div 2]
               /\ h = 2 * TOTAL_TICKS - 1 => obj.angle = [sector |-> 1, ticks |-> 0]

\* from_degrees(359.95), half a tick below the full turn, has returned the
\* angle (1, 0)
C24_Witness ==
    /\ last.op = "from_degrees"
    /\ last.arg = 2 * TOTAL_TICKS - 1
    /\ obj.err = ""
    /\ obj.angle = [sector |-> 1, ticks |-> 0]

C26_ViewsAgreeWithAngle ==
    pc \notin {"new", "failed"}
        => /\ is_aligned(rotor_angle) <=> rotor_angle.ticks = 0
           /\ IF rotor_angle.ticks = 0
                 THEN /\ aligned_position(rotor_angle) = ((rotor_angle.sector - 1) % 4) + 1
                      /\ aligned_position(rotor_angle) \in 1..4
                 ELSE aligned_position(rotor_angle) = 0

\* set_rotor has left the rotor inside sector 200, where it is not aligned
\* and has no aligned position
C26_Witness ==
    /\ pc = "idle"
    /\ last.op = "set_rotor"
    /\ last.err = ""
    /\ rotor_angle = [sector |-> SECTOR_COUNT, ticks |-> SECTOR_TICKS - 1]
    /\ ~is_aligned(rotor_angle)
    /\ aligned_position(rotor_angle) = 0

\* C27: _rotate_sectors called while the rotor is not aligned fails: the
\* call ends with an error, no phase is energized, no wait occurs and the
\* rotor angle is unchanged.
C27_UnalignedRotationFails ==
    [][(PrimitiveStep("_rotate_sectors") /\ ~is_aligned(rotor_angle))
        => /\ last'.err # ""
           /\ last'.writes = 0
           /\ last'.waits = 0
           /\ rotor_angle' = rotor_angle
           /\ IA' = IA
           /\ IB' = IB]_vars

\* C28: when set_rotor calls _rotate_in_sector the rotor is in the sector of
\* the target: a set_rotor that has positioned the rotor in a sector and
\* returned has left it in the sector of from_degrees(target) (the sector
\* _rotate_in_sector was called in, which it does not change).
C28_InSectorStepInTargetSector ==
    [][(/\ SetStep /\ last'.err = "" /\ ValidMicrosteps(last'.m)
        /\ from_degrees(debug, last'.arg).err = ""
        /\ from_degrees(debug, last'.arg).angle # rotor_angle)
        => rotor_angle'.sector = from_degrees(debug, last'.arg).angle.sector]_vars

\* a step that is a call of spin_rotor, up to its return or up to its first
\* microstep, and the arguments of the call
SpinCall ==
    /\ pc = "idle"
    /\ ncalls' = ncalls + 1
    /\ (pc' = "microstep" \/ last'.op = "spin_rotor")

SpinCallRevolutions == IF pc' = "microstep" THEN frame'.arg ELSE last'.arg

SpinCallRpm == IF pc' = "microstep" THEN frame'.rpm ELSE last'.rpm

SpinCallDirection == IF pc' = "microstep" THEN frame'.asked ELSE last'.dir

\* C29: spin_rotor called with a negative num_revolutions, an rpm that is
\* not positive or a direction other than "cw" and "ccw" fails at once: the
\* call ends with an error, no phase is energized, no wait occurs, and the
\* rotor angle, the currents and the pins are unchanged.
C29_SpinRejectsBadArguments ==
    [][(/\ SpinCall
        /\ \/ SpinCallRevolutions < INF
           \/ SpinCallRpm <= 0
           \/ SpinCallDirection \notin {"cw", "ccw"})
        => /\ pc' = "idle"
           /\ last'.err # ""
           /\ last'.writes = 0
           /\ last'.waits = 0
           /\ rotor_angle' = rotor_angle
           /\ IA' = IA
           /\ IB' = IB
           /\ pins' = pins]_vars

\* C30: a call of _energize_phase with phase A or B and current I writes
\* only the pins of that phase: in1 = 1 and in2 = 0 when I >= 0, in1 = 0 and
\* in2 = 1 when I < 0, so the two direction pins are complementary; the
\* direction pins and the duty of the other phase keep their values, and
\* the rotor angle is unchanged.
C30_EnergizeDrivesNamedPhase ==
    [][PrimitiveStep("_energize_phase")
        => LET I        == last'.arg
               forward  == I \in Plus1..Zero
               in1      == IF forward THEN 1 ELSE 0
           IN  /\ last'.err = ""
               /\ rotor_angle' = rotor_angle
               /\ IF last'.dir = "A"
                     THEN /\ pins'.ain1 = in1
                          /\ pins'.ain2 = 1 - in1
                          /\ pins'.bin1 = pins.bin1
                          /\ pins'.bin2 = pins.bin2
                          /\ pins'.pwmb = pins.pwmb
                          /\ IB' = IB
                     ELSE /\ pins'.bin1 = in1
                          /\ pins'.bin2 = 1 - in1
                          /\ pins'.ain1 = pins.ain1
                          /\ pins'.ain2 = pins.ain2
                          /\ pins'.pwma = pins.pwma
                          /\ IA' = IA]_vars

\* phase B has been energized backwards (I = -0.5) while phase A keeps the
\* forward pins and the full duty of the construction
C30_Witness ==
    /\ pc = "idle"
    /\ last.op = "_energize_phase"
    /\ last.dir = "B"
    /\ last.arg = UNITS \div 3
    /\ pins.bin1 = 0
    /\ pins.bin2 = 1
    /\ pins.pwmb = 32767
    /\ pins.ain1 = 1
    /\ pins.ain2 = 0
    /\ pins.pwma = 65535

\* the codes of abs(I) for which abs(I) * 65535 has a fractional part of one
\* half or more (one half exactly for 0.5: 32767.5), so that the nearest
\* integer is one above the integer part
FRACTION_HALF_OR_MORE ==
    {16, 36, 48, 64, 80, 90, 96, 128, 162, 192, 198, 234, 240, 270, 272}

\* round(abs(I) * 65535) for the current of code I
RoundedDuty(I) ==
    IF I = MinusZero THEN 0
    ELSE LET c == Min(I, (UNITS \div 2) - I)
         IN  DUTY_U16[c] + (IF c \in FRACTION_HALF_OR_MORE THEN 1 ELSE 0)

C38_PowerOfTwoExactly ==
    last.op = "is_power_of_2"
        => /\ last.ret <=> (\E k \in 0..MAX_MICROSTEPS : last.arg = 2^k)
           /\ (last.ret /\ last.arg <= MAX_MICROSTEPS)
                  => (last.arg >= 1 /\ MAX_MICROSTEPS % last.arg = 0)

\* the tail of a log: its last n entries
Tail_n(log, n) == SubSeq(log, Len(log) - n + 1, Len(log))

\* the logs of the n * m microsteps of a rotation of n sectors: commands
\* A, B, A, B, .. (two for each microstep) and n * m waits of D / m each
RotationLogs(commands, sleeps, n, m, D) ==
    /\ Len(commands) >= 2 * n * m
    /\ Len(sleeps) >= n * m
    /\ \A k \in 1..(2 * n * m) :
           Tail_n(commands, 2 * n * m)[k][1] = (IF k % 2 = 1 THEN "A" ELSE "B")
    /\ \A k \in 1..(n * m) : SameDuration(Tail_n(sleeps, n * m)[k], Divided(D, m))

\* C32: a spin_rotor of n sectors at rpm > 0 with m microsteps that has
\* returned has, on either controller and for each microstep of each sector,
\* energized phase A, then phase B, then waited once, for D / m with D =
\* 60 / (SECTOR_COUNT * rpm): the waits of a sector sum to D.
C32_MicrostepWaits ==
    (/\ pc = "idle" /\ last.op = "spin_rotor" /\ last.err = ""
     /\ last.rpm > 0 /\ last.arg >= 0 /\ ValidMicrosteps(last.m))
        => LET n == PyRound(last.arg * SECTOR_COUNT, 2 * SECTOR_COUNT)
               D == Seconds(60, SECTOR_COUNT * last.rpm)
           IN  /\ RotationLogs(trace.commands, trace.sleeps, n, last.m, D)
               /\ RotationLogs(stepper.commands, stepper.sleeps, n, last.m, D)

\* the same of the MicrostepMotor alone
MicrostepMotorWaits ==
    (/\ pc = "idle" /\ last.op = "spin_rotor" /\ last.err = ""
     /\ last.rpm > 0 /\ last.arg >= 0 /\ ValidMicrosteps(last.m))
        => LET n == PyRound(last.arg * SECTOR_COUNT, 2 * SECTOR_COUNT)
               D == Seconds(60, SECTOR_COUNT * last.rpm)
           IN  /\ RotationLogs(trace.commands, trace.sleeps, n, last.m, D)
               /\ Len(trace.sleeps) = n * last.m

\* the commands of a rotation of n sectors with m microsteps that ended in
\* the sector last_sector are, sector after sector and for i = 1..m, those
\* of the table entries (offset + i * stride) mod 4 * MAX_MICROSTEPS
\* clockwise, (offset - i * stride) mod 4 * MAX_MICROSTEPS counter-clockwise,
\* with offset = (q - 1) * MAX_MICROSTEPS for the aligned position q the
\* sector starts from and stride = MAX_MICROSTEPS / m; the indices of a
\* sector are pairwise distinct and the last is (q' - 1) * MAX_MICROSTEPS
\* for the aligned position q' of the rotor angle after the sector
RotationIndices(commands, last_sector, n, m, clockwise) ==
    LET step      == IF clockwise THEN 1 ELSE -1
        Sector(j) == ((last_sector - 1 - (n - j + 1) * step) % SECTOR_COUNT) + 1
        After(j)  == move_one_sector([sector |-> Sector(j), ticks |-> 0], clockwise)
        q(j)      == ((Sector(j) - 1) % 4) + 1
        stride    == MAX_MICROSTEPS \div m
        Index(j, i) == ((q(j) - 1) * MAX_MICROSTEPS + step * i * stride)
                           % (4 * MAX_MICROSTEPS)
        rotation  == Tail_n(commands, 2 * n * m)
    IN  /\ Len(commands) >= 2 * n * m
        /\ \A j \in 1..n, i \in 1..m :
               /\ rotation[2 * ((j - 1) * m + i) - 1] = <<"A", electric_cycle[Index(j, i)][1]>>
               /\ rotation[2 * ((j - 1) * m + i)] = <<"B", electric_cycle[Index(j, i)][2]>>
               /\ \A k \in 1..m : k # i => Index(j, k) # Index(j, i)
        /\ \A j \in 1..n :
               /\ Index(j, m) = (aligned_position(After(j)) - 1) * MAX_MICROSTEPS
               /\ After(j).sector = (IF j = n THEN last_sector ELSE Sector(j + 1))

\* C34: a spin_rotor of n sectors (clockwise for a count of revolutions
\* that is not negative, counter-clockwise for a negative one) with m
\* microsteps (m a power of two up to MAX_MICROSTEPS) that has returned has,
\* on either controller, energized
\* the phases from the table entries of the indices (offset +- i * stride)
\* mod 4 * MAX_MICROSTEPS, i = 1..m, of each sector; the entries of the
\* table are pairwise different, so the indices are known from the commands.
C34_TableIndices ==
    (/\ pc = "idle" /\ last.op = "spin_rotor" /\ last.err = ""
     /\ last.rpm > 0 /\ ValidMicrosteps(last.m))
        => LET n == Abs(PyRound(last.arg * SECTOR_COUNT, 2 * SECTOR_COUNT))
           IN  /\ \A a, b \in DOMAIN electric_cycle :
                      a # b => electric_cycle[a] # electric_cycle[b]
               /\ RotationIndices(trace.commands, rotor_angle.sector, n, last.m,
                                  last.arg >= 0)
               /\ RotationIndices(stepper.commands, stepper.angle.sector, n, last.m,
                                  last.arg >= 0)

\* two sectors counter-clockwise from sector 1, across the wrap to sector
\* 200, with MAX_MICROSTEPS microsteps each
C34_Witness ==
    /\ pc = "idle"
    /\ last.op = "spin_rotor"
    /\ last.err = ""
    /\ last.rpm > 0
    /\ last.arg < 0
    /\ last.m = MAX_MICROSTEPS
    /\ rotor_angle.sector = SECTOR_COUNT - 1
    /\ stepper.angle.sector = SECTOR_COUNT - 1
    /\ Len(trace.commands) = 4 * MAX_MICROSTEPS

\* C37: a set_rotor / turn_rotor that has ended has called _rotate_sector /
\* _rotate_full_step at most SECTOR_COUNT - 1 times, and at most
\* SECTOR_COUNT / 2 times when its direction is "closest".
C37_SeekIsBounded ==
    (pc = "idle" /\ last.op = "set_rotor")
        => /\ trace.sectors <= SECTOR_COUNT - 1
           /\ stepper.sectors <= SECTOR_COUNT - 1
           /\ last.dir = "closest"
                  => /\ trace.sectors <= SECTOR_COUNT \div 2
                     /\ stepper.sectors <= SECTOR_COUNT \div 2

\* a closest seek to the opposite angle: SECTOR_COUNT / 2 sector rotations
C37_Witness ==
    /\ pc = "idle"
    /\ last.op = "set_rotor"
    /\ last.dir = "closest"
    /\ last.err = ""
    /\ trace.sectors = SECTOR_COUNT \div 2
    /\ stepper.sectors = SECTOR_COUNT \div 2

\* a seek in a given direction to the sector just behind the rotor:
\* SECTOR_COUNT - 1 sector rotations
LongestSeek ==
    /\ pc = "idle"
    /\ last.op = "set_rotor"
    /\ last.dir # "closest"
    /\ last.err = ""
    /\ trace.sectors = SECTOR_COUNT - 1
    /\ stepper.sectors = SECTOR_COUNT - 1

\* the angle a in ticks from the vertical
Ticks(a) == (a.sector - 1) * SECTOR_TICKS + a.ticks

\* the angle a lies on the arc that leads from start to target clockwise
\* (direction "cw") or counter-clockwise (direction "ccw")
OnArc(start, target, a, direction) ==
    IF direction = "cw"
        THEN (Ticks(a) - Ticks(start)) % TOTAL_TICKS
                 <= (Ticks(target) - Ticks(start)) % TOTAL_TICKS
        ELSE (Ticks(start) - Ticks(a)) % TOTAL_TICKS
                 <= (Ticks(start) - Ticks(target)) % TOTAL_TICKS

\* C35: a set_rotor / turn_rotor to a target angle with direction "cw" or
\* "ccw" that returns takes the rotor angle, on either controller, only
\* through angles of the clockwise (counter-clockwise) arc from the angle it
\* starts at to the target, the angle it ends at included.
C35_SeekKeepsDirection ==
    [][(/\ pc = "idle" /\ last'.op = "set_rotor" /\ ncalls' = ncalls + 1
        /\ last'.dir \in {"cw", "ccw"} /\ last'.err = "")
           => LET target == from_degrees(debug, last'.arg).angle
              IN  /\ \A k \in DOMAIN trace'.path :
                         OnArc(rotor_angle, target, trace'.path[k], last'.dir)
                  /\ \A k \in DOMAIN stepper'.path :
                         OnArc(stepper.angle, target, stepper'.path[k], last'.dir)]_vars

\* the MicrostepMotor's clockwise seeks that start from an aligned rotor
\* keep to the arc
ClockwiseAlignedSeekKeepsDirection ==
    [][(/\ pc = "idle" /\ last'.op = "set_rotor" /\ ncalls' = ncalls + 1
        /\ last'.dir = "cw" /\ last'.err = ""
        /\ is_aligned(rotor_angle))
           => LET target == from_degrees(debug, last'.arg).angle
              IN  \A k \in DOMAIN trace'.path :
                      OnArc(rotor_angle, target, trace'.path[k], last'.dir)]_vars

\* IA * IA + IB * IB of the pair calculate_currents_geometric returned, in
\* units of 10^-8
SumOfSquares ==
    table.electric_cycle[1][1] * table.electric_cycle[1][1]
        + table.electric_cycle[1][2] * table.electric_cycle[1][2]

\* what a sum of two squares of numbers in ten-thousandths may be off by:
\* 5 * 10^-4
TOLERANCE == 5 * ONE

GeometricMagnitude ==
    table.strategy = "geometric"
        => /\ table.n % QUARTER_STEPS = 0 => SumOfSquares = ONE * ONE
           /\ table.n % QUARTER_STEPS # 0 => SumOfSquares < ONE * ONE - TOLERANCE
           /\ SumOfSquares >= (2 * ONE - SQRT2) * ONE - TOLERANCE

SameState ==
    /\ stepper.angle = rotor_angle
    /\ stepper.IA = IA
    /\ stepper.IB = IB
    /\ stepper.pins = pins

====
